---- MODULE Spec2Model ----
(***************************************************************************)
(* Softball Scout: the import core (importer.py, import_csv.py) and the    *)
(* reconciliation layer of database.py, as a state machine over the        *)
(* SQLite tables.                                                          *)
(*                                                                         *)
(* Encoding.  A text value is a sequence of one-character strings.  A      *)
(* nullable column holds NULL (the empty tuple) or a one-element tuple     *)
(* <<v>>.  A table is the sequence of its rows; a row's id is its index    *)
(* (AUTOINCREMENT, and no modelled operation deletes from these tables).   *)
(* Every database function opens its own connection through get_db, which *)
(* commits when the function returns and rolls back when it raises.        *)
(***************************************************************************)
EXTENDS Integers, Sequences, FiniteSets, TLC

VARIABLES
    age_groups,      \* rows [name, sort_order]
    our_teams,       \* rows [name, age_group_id, location]
    seasons,         \* rows [year, season_type, team_id]
    teams,           \* rows [name, location]            (opponent teams)
    players,         \* rows [name, jersey_number]
    games,           \* rows [season_id, game_date, opponent_name, opponent_team_id,
                     \*       win_loss, runs_for, runs_against, notes]
    batting_stats,   \* set of rows [game_id, player_id, line]
    pitching_stats,  \* set of rows [game_id, player_id, line]
    last,            \* what the last call did: its name, outcome and result
    calls            \* the calls between their SELECT and their write, and
                     \* whether the callers run one call at a time

vars == <<age_groups, our_teams, seasons, teams, players, games,
          batting_stats, pitching_stats, last, calls>>

tables == <<age_groups, our_teams, seasons, teams, players, games,
            batting_stats, pitching_stats>>

-----------------------------------------------------------------------------
(* Values *)

NULL == <<>>

Some(v) == <<v>>

Val(o) == o[1]

\* SQL COALESCE(a, b)
Coalesce(a, b) == IF a # NULL THEN a ELSE b

Range(s) == {s[i] : i \in DOMAIN s}

\* the element of a one-element set.  Only({e : x \in {v}}) is e with x
\* standing for the value of v, which is computed once
Only(S) == CHOOSE x \in S : TRUE

SP == " "

\* str.strip() on a text value
RECURSIVE LStrip(_)
LStrip(s) == IF s # <<>> /\ Head(s) = SP THEN LStrip(Tail(s)) ELSE s

RECURSIVE RStrip(_)
RStrip(s) ==
    IF s # <<>> /\ s[Len(s)] = SP THEN RStrip(SubSeq(s, 1, Len(s) - 1)) ELSE s

Strip(s) == RStrip(LStrip(s))

-----------------------------------------------------------------------------
(* The database as one value, and the outcome of one database call *)

Db ==
    [age_groups |-> age_groups, our_teams |-> our_teams, seasons |-> seasons,
     teams |-> teams, players |-> players, games |-> games,
     batting_stats |-> batting_stats, pitching_stats |-> pitching_stats]

EmptyDb ==
    [age_groups |-> <<>>, our_teams |-> <<>>, seasons |-> <<>>,
     teams |-> <<>>, players |-> <<>>, games |-> <<>>,
     batting_stats |-> {}, pitching_stats |-> {}]

\* the call returned id, having committed db
Returned(db, id, hit) == [db |-> db, id |-> id, raised |-> FALSE, hit |-> hit]

\* the call raised, get_db rolled its transaction back: db is as it was
Raised(db) == [db |-> db, id |-> 0, raised |-> TRUE, hit |-> FALSE]

Ids(table) == DOMAIN table

-----------------------------------------------------------------------------
(* database.py: get-or-create of age groups, teams and seasons *)

\* SELECT id FROM age_groups WHERE name = ?; else INSERT
GetOrCreateAgeGroup(db, name, sort_order) ==
    LET found == {i \in Ids(db.age_groups) : db.age_groups[i].name = name}
    IN IF found # {}
       THEN Returned(db, CHOOSE i \in found : TRUE, TRUE)
       ELSE Returned([db EXCEPT !.age_groups =
                          Append(@, [name |-> name, sort_order |-> sort_order])],
                     Len(db.age_groups) + 1, FALSE)

\* SELECT id FROM our_teams WHERE name = ? AND age_group_id = ?; a hit returns
\* the id and writes nothing; a miss inserts (name, age_group_id, location)
GetOrCreateOurTeam(db, name, age_group_id, location) ==
    LET found == {i \in Ids(db.our_teams) :
                     /\ db.our_teams[i].name = name
                     /\ db.our_teams[i].age_group_id = age_group_id}
    IN IF found # {}
       THEN Returned(db, CHOOSE i \in found : TRUE, TRUE)
       ELSE IF age_group_id \notin Ids(db.age_groups)
            THEN Raised(db)     \* FOREIGN KEY (age_group_id)
            ELSE Returned([db EXCEPT !.our_teams =
                               Append(@, [name |-> name,
                                          age_group_id |-> age_group_id,
                                          location |-> location])],
                          Len(db.our_teams) + 1, FALSE)

\* CHECK(season_type IN ('Spring', 'Fall'))
SeasonTypes == {"Spring", "Fall"}

\* a variant whose lookup compares team_id with =, which no NULL satisfies
GetOrCreateSeason_EqNull(db, year, season_type, team_id) ==
    LET found == {i \in Ids(db.seasons) :
                     /\ db.seasons[i].year = year
                     /\ db.seasons[i].season_type = season_type
                     /\ team_id # NULL
                     /\ db.seasons[i].team_id = team_id}
    IN IF found # {}
       THEN Returned(db, CHOOSE i \in found : TRUE, TRUE)
       ELSE IF \/ season_type \notin SeasonTypes
               \/ (team_id # NULL /\ Val(team_id) \notin Ids(db.our_teams))
            THEN Raised(db)
            ELSE Returned([db EXCEPT !.seasons =
                               Append(@, [year |-> year,
                                          season_type |-> season_type,
                                          team_id |-> team_id])],
                          Len(db.seasons) + 1, FALSE)

\* team_id given: WHERE year = ? AND season_type = ? AND team_id = ?
\* team_id None:  WHERE year = ? AND season_type = ? AND team_id IS NULL
ExistingSeasons(db, year, season_type, team_id) ==
    {i \in Ids(db.seasons) :
        /\ db.seasons[i].year = year
        /\ db.seasons[i].season_type = season_type
        /\ db.seasons[i].team_id = team_id}

\* INSERT INTO seasons (name, year, season_type, team_id); in
\* UNIQUE(year, season_type, team_id) a NULL team_id equals no other
InsertSeason(db, year, season_type, team_id) ==
    IF \/ season_type \notin SeasonTypes                       \* CHECK
       \/ (team_id # NULL /\ Val(team_id) \notin Ids(db.our_teams))  \* FOREIGN KEY
       \/ (team_id # NULL
           /\ ExistingSeasons(db, year, season_type, team_id) # {})  \* UNIQUE
    THEN Raised(db)
    ELSE Returned([db EXCEPT !.seasons =
                       Append(@, [year |-> year, season_type |-> season_type,
                                  team_id |-> team_id])],
                  Len(db.seasons) + 1, FALSE)

\* get_or_create_season(year, season_type, team_id)
GetOrCreateSeason(db, year, season_type, team_id) ==
    LET found == ExistingSeasons(db, year, season_type, team_id)
    IN IF found # {}
       THEN Returned(db, CHOOSE i \in found : TRUE, TRUE)
       ELSE InsertSeason(db, year, season_type, team_id)

\* get_team_by_name, then create_team on a miss (opponent teams)
GetOrCreateTeam(db, name, location) ==
    LET found == {i \in Ids(db.teams) : db.teams[i].name = name}
    IN IF found # {}
       THEN Returned(db, CHOOSE i \in found : TRUE, TRUE)
       ELSE Returned([db EXCEPT !.teams =
                          Append(@, [name |-> name, location |-> location])],
                     Len(db.teams) + 1, FALSE)

-----------------------------------------------------------------------------
(* database.py: players *)

Handedness == {"R", "L", "S"}

\* name.strip(), then a trailing "(R)", "(L)" or "(S)" and the blanks before
\* it are removed: re.match(r'^(.+?)\s*\([RLS]\)$'), group 1, stripped
CleanDbName(name) ==
    LET s == Strip(name)
        n == Len(s)
    IN IF /\ n >= 4
          /\ s[n] = ")"
          /\ s[n - 1] \in Handedness
          /\ s[n - 2] = "("
       THEN Strip(SubSeq(s, 1, n - 3))
       ELSE s

\* SELECT * FROM players WHERE name = ?  -- the jersey is not part of the lookup
GetPlayerByName(db, name) ==
    {i \in Ids(db.players) : db.players[i].name = name}

\* an INSERT that leaves the new row as the only row of players
CreatePlayer_Replace(db, name, jersey_number) ==
    Returned([db EXCEPT !.players =
                  <<[name |-> name, jersey_number |-> jersey_number]>>],
             1, FALSE)

\* INSERT INTO players (name, jersey_number, ...)
CreatePlayer(db, name, jersey_number) ==
    IF \E i \in Ids(db.players) :
           /\ db.players[i].name = name
           /\ jersey_number # NULL
           /\ db.players[i].jersey_number = jersey_number
    THEN Raised(db)             \* UNIQUE(name, jersey_number)
    ELSE Returned([db EXCEPT !.players =
                       Append(@, [name |-> name,
                                  jersey_number |-> jersey_number])],
                  Len(db.players) + 1, FALSE)

\* clean the name, look it up by name alone, create on a miss
GetOrCreatePlayer(db, name, jersey_number) ==
    LET clean_name == CleanDbName(name)
        found == GetPlayerByName(db, clean_name)
    IN IF found # {}
       THEN Returned(db, CHOOSE i \in found : \A j \in found : i <= j, TRUE)
       ELSE CreatePlayer(db, clean_name, jersey_number)

-----------------------------------------------------------------------------
(* database.py: games *)

\* CHECK(win_loss IN ('W', 'L', 'T')); a NULL passes a CHECK
WinLossValues == {<<"W">>, <<"L">>, <<"T">>}

\* UNIQUE(season_id, game_date, opponent_name, runs_for, runs_against):
\* two rows collide when all five columns are non-NULL and equal
GamesCollide(a, b) ==
    /\ a.season_id = b.season_id
    /\ a.game_date = b.game_date
    /\ a.opponent_name = b.opponent_name
    /\ a.runs_for # NULL /\ a.runs_against # NULL
    /\ a.runs_for = b.runs_for
    /\ a.runs_against = b.runs_against

\* the constraints of the games table on one row, the other rows given
GameRowAccepted(db, row, others) ==
    /\ row.season_id \in Ids(db.seasons)                       \* FOREIGN KEY
    /\ row.opponent_team_id # NULL
          => Val(row.opponent_team_id) \in Ids(db.teams)       \* FOREIGN KEY
    /\ row.win_loss # NULL => Val(row.win_loss) \in WinLossValues  \* CHECK
    /\ \A i \in others : ~GamesCollide(db.games[i], row)       \* UNIQUE

\* a SELECT of create_game that finds no row, whatever the table holds
ExistingGames_None(db, season_id, game_date, opponent_name, runs_for, runs_against) ==
    {}

\* the SELECT of create_game: on the five-column key when both scores are
\* given, on (season_id, game_date, opponent_name) otherwise
ExistingGames(db, season_id, game_date, opponent_name, runs_for, runs_against) ==
    IF runs_for # NULL /\ runs_against # NULL
    THEN {i \in Ids(db.games) :
             /\ db.games[i].season_id = season_id
             /\ db.games[i].game_date = game_date
             /\ db.games[i].opponent_name = opponent_name
             /\ db.games[i].runs_for = runs_for
             /\ db.games[i].runs_against = runs_against}
    ELSE {i \in Ids(db.games) :
             /\ db.games[i].season_id = season_id
             /\ db.games[i].game_date = game_date
             /\ db.games[i].opponent_name = opponent_name}

\* UpdateGame as a plain overwrite (SET col = ?), the way update_game writes
UpdateGame_Overwrite(db, id, win_loss, runs_for, runs_against, opponent_team_id, notes) ==
    LET old == db.games[id]
        new == [old EXCEPT
                   !.win_loss = win_loss,
                   !.runs_for = runs_for,
                   !.runs_against = runs_against,
                   !.opponent_team_id = opponent_team_id,
                   !.notes = notes]
    IN IF GameRowAccepted(db, new, Ids(db.games) \ {id})
       THEN Returned([db EXCEPT !.games[id] = new], id, TRUE)
       ELSE [Raised(db) EXCEPT !.hit = TRUE]

\* UPDATE games SET col = COALESCE(?, col), ... WHERE id = ?
UpdateGame(db, id, win_loss, runs_for, runs_against, opponent_team_id, notes) ==
    LET old == db.games[id]
        new == [old EXCEPT
                   !.win_loss = Coalesce(win_loss, @),
                   !.runs_for = Coalesce(runs_for, @),
                   !.runs_against = Coalesce(runs_against, @),
                   !.opponent_team_id = Coalesce(opponent_team_id, @),
                   !.notes = Coalesce(notes, @)]
    IN IF GameRowAccepted(db, new, Ids(db.games) \ {id})
       THEN Returned([db EXCEPT !.games[id] = new], id, TRUE)
       ELSE [Raised(db) EXCEPT !.hit = TRUE]

\* INSERT INTO games (...)
InsertGame(db, season_id, game_date, opponent_name, win_loss, runs_for, runs_against, opponent_team_id, notes) ==
    LET row == [season_id |-> season_id, game_date |-> game_date,
                opponent_name |-> opponent_name,
                opponent_team_id |-> opponent_team_id,
                win_loss |-> win_loss, runs_for |-> runs_for,
                runs_against |-> runs_against, notes |-> notes]
    IN IF GameRowAccepted(db, row, Ids(db.games))
       THEN Returned([db EXCEPT !.games = Append(@, row)],
                     Len(db.games) + 1, FALSE)
       ELSE Raised(db)

\* create_game: the outcomes of one call.  fetchone() takes the first row of a
\* SELECT without ORDER BY, so with several matching rows any of them may be
\* the one updated.
CreateGame(db, season_id, game_date, opponent_name, win_loss, runs_for, runs_against, opponent_team_id, notes) ==
    LET existing == ExistingGames(db, season_id, game_date, opponent_name,
                                  runs_for, runs_against)
    IN IF existing # {}
       THEN {UpdateGame(db, id, win_loss, runs_for, runs_against,
                        opponent_team_id, notes) : id \in existing}
       ELSE {InsertGame(db, season_id, game_date, opponent_name, win_loss,
                        runs_for, runs_against, opponent_team_id, notes)}

\* the parameters create_game declares
CreateGameParams ==
    {"season_id", "game_date", "opponent_name", "win_loss", "runs_for",
     "runs_against", "opponent_team_id", "notes"}

\* SELECT * FROM games WHERE season_id = ? ORDER BY game_date
GetGamesBySeason(db, season_id) ==
    {i \in Ids(db.games) : db.games[i].season_id = season_id}

-----------------------------------------------------------------------------
(* database.py: stat lines *)

\* INSERT OR REPLACE INTO batting_stats: a row of the same (game_id,
\* player_id) is deleted, then the new row is inserted
AddBattingStats(db, game_id, player_id, line) ==
    IF game_id \notin Ids(db.games) \/ player_id \notin Ids(db.players)
    THEN Raised(db)             \* FOREIGN KEY
    ELSE Returned(
             [db EXCEPT !.batting_stats =
                  {b \in @ : ~(b.game_id = game_id /\ b.player_id = player_id)}
                  \cup {[game_id |-> game_id, player_id |-> player_id,
                         line |-> line]}],
             0, FALSE)

\* INSERT OR REPLACE INTO pitching_stats
AddPitchingStats(db, game_id, player_id, line) ==
    IF game_id \notin Ids(db.games) \/ player_id \notin Ids(db.players)
    THEN Raised(db)             \* FOREIGN KEY
    ELSE Returned(
             [db EXCEPT !.pitching_stats =
                  {b \in @ : ~(b.game_id = game_id /\ b.player_id = player_id)}
                  \cup {[game_id |-> game_id, player_id |-> player_id,
                         line |-> line]}],
             0, FALSE)

-----------------------------------------------------------------------------
(* Text *)

UpperCase == <<"A", "B", "C", "D", "E", "F", "G", "H", "I", "J", "K", "L", "M", "N", "O", "P", "Q", "R", "S", "T", "U", "V", "W", "X", "Y", "Z">>

LowerCase == <<"a", "b", "c", "d", "e", "f", "g", "h", "i", "j", "k", "l", "m", "n", "o", "p", "q", "r", "s", "t", "u", "v", "w", "x", "y", "z">>

Digits == <<"0", "1", "2", "3", "4", "5", "6", "7", "8", "9">>

IsUpper(c) == \E i \in DOMAIN UpperCase : UpperCase[i] = c

IsLower(c) == \E i \in DOMAIN LowerCase : LowerCase[i] = c

IsAlpha(c) == IsUpper(c) \/ IsLower(c)

IsDigit(c) == \E i \in DOMAIN Digits : Digits[i] = c

\* the value of a digit character
DigitValue(c) == (CHOOSE i \in DOMAIN Digits : Digits[i] = c) - 1

LowerChar(c) ==
    IF IsUpper(c)
    THEN LowerCase[CHOOSE i \in DOMAIN UpperCase : UpperCase[i] = c]
    ELSE c

UpperChar(c) ==
    IF IsLower(c)
    THEN UpperCase[CHOOSE i \in DOMAIN LowerCase : LowerCase[i] = c]
    ELSE c

\* str.lower()
Lower(s) == [i \in DOMAIN s |-> LowerChar(s[i])]

\* str.upper()
Upper(s) == [i \in DOMAIN s |-> UpperChar(s[i])]

\* str.replace(' ', '')
RECURSIVE RemoveSpaces(_)
RemoveSpaces(s) ==
    IF s = <<>> THEN <<>>
    ELSE IF Head(s) = SP THEN RemoveSpaces(Tail(s))
    ELSE <<Head(s)>> \o RemoveSpaces(Tail(s))

\* sub in s, for str
Contains(sub, s) ==
    \E i \in 0..(Len(s) - Len(sub)) : SubSeq(s, i + 1, i + Len(sub)) = sub

\* str.isdigit(): non-empty and every character a digit
IsDigitText(s) == s # <<>> /\ \A i \in DOMAIN s : IsDigit(s[i])

\* int(s) of a text of digits
RECURSIVE DigitsValue(_)
DigitsValue(s) ==
    IF s = <<>> THEN 0
    ELSE 10 * DigitsValue(SubSeq(s, 1, Len(s) - 1)) + DigitValue(s[Len(s)])

\* str(n) of a natural number
RECURSIVE NatText(_)
NatText(n) ==
    IF n < 10 THEN <<Digits[n + 1]>>
    ELSE NatText(n \div 10) \o <<Digits[(n % 10) + 1]>>

-----------------------------------------------------------------------------
(* importer.py: the column-mapping detector *)
\* GAMECHANGER_COLUMN_MAP, in the order of the dict: <<column, field>>
GAMECHANGER_COLUMN_MAP ==
    <<<<<<"B", "o", "x", "S", "c", "o", "r", "e", "C", "o", "m", "p", "o", "n", "e", "n", "t", "s", "_", "_", "p", "l", "a", "y", "e", "r", "N", "a", "m", "e">>, "player_name">>,
      <<<<"a", "g", "-", "c", "e", "l", "l">>, "ab">>,
      <<<<"a", "g", "-", "c", "e", "l", "l", " ", "2">>, "r">>,
      <<<<"a", "g", "-", "c", "e", "l", "l", " ", "3">>, "h">>,
      <<<<"a", "g", "-", "c", "e", "l", "l", " ", "4">>, "rbi">>,
      <<<<"a", "g", "-", "c", "e", "l", "l", " ", "5">>, "bb">>,
      <<<<"a", "g", "-", "c", "e", "l", "l", " ", "6">>, "so">>>>
\* STANDARD_COLUMN_MAP, in the order of the dict: <<synonym, field>>
STANDARD_COLUMN_MAP ==
    <<<<<<"p", "l", "a", "y", "e", "r">>, "player_name">>,
      <<<<"p", "l", "a", "y", "e", "r", "_", "n", "a", "m", "e">>, "player_name">>,
      <<<<"n", "a", "m", "e">>, "player_name">>,
      <<<<"p", "l", "a", "y", "e", "r", "n", "a", "m", "e">>, "player_name">>,
      <<<<"a", "b">>, "ab">>,
      <<<<"a", "t", "b", "a", "t", "s">>, "ab">>,
      <<<<"a", "t", "_", "b", "a", "t", "s">>, "ab">>,
      <<<<"r">>, "r">>,
      <<<<"r", "u", "n", "s">>, "r">>,
      <<<<"h">>, "h">>,
      <<<<"h", "i", "t", "s">>, "h">>,
      <<<<"r", "b", "i">>, "rbi">>,
      <<<<"r", "b", "i", "s">>, "rbi">>,
      <<<<"b", "b">>, "bb">>,
      <<<<"w", "a", "l", "k", "s">>, "bb">>,
      <<<<"w", "a", "l", "k">>, "bb">>,
      <<<<"s", "o">>, "so">>,
      <<<<"k">>, "so">>,
      <<<<"s", "t", "r", "i", "k", "e", "o", "u", "t", "s">>, "so">>,
      <<<<"s", "t", "r", "i", "k", "e", "o", "u", "t">>, "so">>,
      <<<<"h", "b", "p">>, "hbp">>,
      <<<<"h", "i", "t", "b", "y", "p", "i", "t", "c", "h">>, "hbp">>,
      <<<<"s", "a", "c">>, "sac">>,
      <<<<"s", "a", "c", "r", "i", "f", "i", "c", "e">>, "sac">>,
      <<<<"d", "a", "t", "e">>, "game_date">>,
      <<<<"g", "a", "m", "e", "_", "d", "a", "t", "e">>, "game_date">>,
      <<<<"g", "a", "m", "e", "d", "a", "t", "e">>, "game_date">>,
      <<<<"t", "i", "m", "e">>, "game_time">>,
      <<<<"g", "a", "m", "e", "_", "t", "i", "m", "e">>, "game_time">>,
      <<<<"g", "a", "m", "e", "t", "i", "m", "e">>, "game_time">>,
      <<<<"s", "t", "a", "r", "t", "_", "t", "i", "m", "e">>, "game_time">>,
      <<<<"o", "p", "p", "o", "n", "e", "n", "t">>, "opponent">>,
      <<<<"o", "p", "p">>, "opponent">>,
      <<<<"v", "s">>, "opponent">>,
      <<<<"o", "p", "p", "o", "s", "i", "n", "g", "_", "t", "e", "a", "m">>, "opponent">>,
      <<<<"r", "e", "s", "u", "l", "t">>, "win_loss">>,
      <<<<"w", "/", "l">>, "win_loss">>,
      <<<<"w", "l">>, "win_loss">>,
      <<<<"w", "i", "n", "_", "l", "o", "s", "s">>, "win_loss">>,
      <<<<"o", "u", "t", "c", "o", "m", "e">>, "win_loss">>,
      <<<<"r", "f">>, "runs_for">>,
      <<<<"r", "u", "n", "s", "_", "f", "o", "r">>, "runs_for">>,
      <<<<"r", "u", "n", "s", "f", "o", "r">>, "runs_for">>,
      <<<<"o", "u", "r", "_", "s", "c", "o", "r", "e">>, "runs_for">>,
      <<<<"s", "c", "o", "r", "e">>, "runs_for">>,
      <<<<"u", "s">>, "runs_for">>,
      <<<<"r", "a">>, "runs_against">>,
      <<<<"r", "u", "n", "s", "_", "a", "g", "a", "i", "n", "s", "t">>, "runs_against">>,
      <<<<"r", "u", "n", "s", "a", "g", "a", "i", "n", "s", "t">>, "runs_against">>,
      <<<<"o", "p", "p", "_", "s", "c", "o", "r", "e">>, "runs_against">>,
      <<<<"t", "h", "e", "i", "r", "_", "s", "c", "o", "r", "e">>, "runs_against">>,
      <<<<"t", "h", "e", "m">>, "runs_against">>>>

\* a Python dict as the sequence of its <<key, value>> items in insertion
\* order: d[k] = v replaces the value of a key already present, in place
DictSet(d, k, v) ==
    IF \E i \in DOMAIN d : d[i][1] = k
    THEN [i \in DOMAIN d |-> IF d[i][1] = k THEN <<k, v>> ELSE d[i]]
    ELSE Append(d, <<k, v>>)

DictHas(d, k) == \E i \in DOMAIN d : d[i][1] = k

DictGet(d, k) == d[CHOOSE i \in DOMAIN d : d[i][1] = k][2]

\* {v: k for k, v in d.items()}
RECURSIVE ReverseMap(_)
ReverseMap(d) ==
    IF d = <<>> THEN <<>>
    ELSE DictSet(ReverseMap(SubSeq(d, 1, Len(d) - 1)),
                 d[Len(d)][2], d[Len(d)][1])

\* the GameChanger branch: every key of GAMECHANGER_COLUMN_MAP that is a header
RECURSIVE GamechangerColMap(_, _)
GamechangerColMap(headers, n) ==
    IF n = 0 THEN <<>>
    ELSE LET rest == GamechangerColMap(headers, n - 1)
             item == GAMECHANGER_COLUMN_MAP[n]
         IN IF item[1] \in Range(headers)
            THEN DictSet(rest, item[1], item[2])
            ELSE rest

\* the standard branch: for each synonym, in dict order, the first header
\* that equals it after lower() and strip()
RECURSIVE StandardColMap(_, _, _)
StandardColMap(headers, column_map, n) ==
    IF n = 0 THEN <<>>
    ELSE LET rest == StandardColMap(headers, column_map, n - 1)
             item == column_map[n]
             hits == {i \in DOMAIN headers : Strip(Lower(headers[i])) = item[1]}
         IN IF hits # {}
            THEN DictSet(rest,
                         headers[CHOOSE i \in hits : \A j \in hits : i <= j],
                         item[2])
            ELSE rest

Txt_GcPlayerName == GAMECHANGER_COLUMN_MAP[1][1]

Txt_AgCell == GAMECHANGER_COLUMN_MAP[2][1]

\* a detector that tries the synonym table before the GameChanger keys
DetectCsvFormat_StandardFirst(headers) ==
    IF StandardColMap(headers, STANDARD_COLUMN_MAP, Len(STANDARD_COLUMN_MAP)) # <<>>
    THEN [format_type |-> "standard",
          col_map |-> StandardColMap(headers, STANDARD_COLUMN_MAP,
                                     Len(STANDARD_COLUMN_MAP))]
    ELSE IF Txt_GcPlayerName \in Range(headers) \/ Txt_AgCell \in Range(headers)
    THEN [format_type |-> "gamechanger",
          col_map |-> GamechangerColMap(headers, Len(GAMECHANGER_COLUMN_MAP))]
    ELSE [format_type |-> "unknown", col_map |-> <<>>]

\* detect_csv_format(headers): (format_type, col_map)
DetectCsvFormat(headers) ==
    IF Txt_GcPlayerName \in Range(headers) \/ Txt_AgCell \in Range(headers)
    THEN [format_type |-> "gamechanger",
          col_map |-> GamechangerColMap(headers, Len(GAMECHANGER_COLUMN_MAP))]
    ELSE LET col_map == StandardColMap(headers, STANDARD_COLUMN_MAP,
                                       Len(STANDARD_COLUMN_MAP))
         IN IF col_map # <<>>
            THEN [format_type |-> "standard", col_map |-> col_map]
            ELSE [format_type |-> "unknown", col_map |-> <<>>]

\* STANDARD_COLUMN_MAP of import_csv.py, in the order of the dict
LEGACY_STANDARD_COLUMN_MAP ==
    <<<<<<"p", "l", "a", "y", "e", "r">>, "player_name">>,
      <<<<"p", "l", "a", "y", "e", "r", "_", "n", "a", "m", "e">>, "player_name">>,
      <<<<"n", "a", "m", "e">>, "player_name">>,
      <<<<"p", "l", "a", "y", "e", "r", "n", "a", "m", "e">>, "player_name">>,
      <<<<"a", "b">>, "ab">>,
      <<<<"a", "t", "b", "a", "t", "s">>, "ab">>,
      <<<<"a", "t", "_", "b", "a", "t", "s">>, "ab">>,
      <<<<"r">>, "r">>,
      <<<<"r", "u", "n", "s">>, "r">>,
      <<<<"h">>, "h">>,
      <<<<"h", "i", "t", "s">>, "h">>,
      <<<<"r", "b", "i">>, "rbi">>,
      <<<<"r", "b", "i", "s">>, "rbi">>,
      <<<<"b", "b">>, "bb">>,
      <<<<"w", "a", "l", "k", "s">>, "bb">>,
      <<<<"w", "a", "l", "k">>, "bb">>,
      <<<<"s", "o">>, "so">>,
      <<<<"k">>, "so">>,
      <<<<"s", "t", "r", "i", "k", "e", "o", "u", "t", "s">>, "so">>,
      <<<<"s", "t", "r", "i", "k", "e", "o", "u", "t">>, "so">>,
      <<<<"h", "b", "p">>, "hbp">>,
      <<<<"h", "i", "t", "b", "y", "p", "i", "t", "c", "h">>, "hbp">>,
      <<<<"s", "a", "c">>, "sac">>,
      <<<<"s", "a", "c", "r", "i", "f", "i", "c", "e">>, "sac">>>>

\* detect_csv_format of import_csv.py; its GAMECHANGER_COLUMN_MAP is the
\* same dict
LegacyDetectCsvFormat(headers) ==
    IF Txt_GcPlayerName \in Range(headers) \/ Txt_AgCell \in Range(headers)
    THEN [format_type |-> "gamechanger",
          col_map |-> GamechangerColMap(headers, Len(GAMECHANGER_COLUMN_MAP))]
    ELSE LET col_map == StandardColMap(headers, LEGACY_STANDARD_COLUMN_MAP,
                                       Len(LEGACY_STANDARD_COLUMN_MAP))
         IN IF col_map # <<>>
            THEN [format_type |-> "standard", col_map |-> col_map]
            ELSE [format_type |-> "unknown", col_map |-> <<>>]

-----------------------------------------------------------------------------
(* importer.py: conversions *)

\* the number of digits of s from position i on
DigitRun(s, i) ==
    LET ends == {j \in i..(Len(s) + 1) :
                     /\ \A k \in i..(j - 1) : IsDigit(s[k])
                     /\ (j = Len(s) + 1 \/ ~IsDigit(s[j]))}
    IN (CHOOSE j \in ends : TRUE) - i

\* the number of letters of s from position i on
AlphaRun(s, i) ==
    LET ends == {j \in i..(Len(s) + 1) :
                     /\ \A k \in i..(j - 1) : IsAlpha(s[k])
                     /\ (j = Len(s) + 1 \/ ~IsAlpha(s[j]))}
    IN (CHOOSE j \in ends : TRUE) - i

RECURSIVE Pow10(_)
Pow10(n) == IF n = 0 THEN 1 ELSE 10 * Pow10(n - 1)

Signs == {"+", "-"}

\* the largest decimal exponent of a finite double (1.797...e308)
MaxFloatExponent == 308

\* digits * 10^scale is beyond the doubles: float() yields inf.  The values
\* between 1.797...e308 and 1e309 are taken for finite.
FloatOverflows(digits, scale) ==
    digits # 0 /\ Len(NatText(digits)) + scale - 1 > MaxFloatExponent

\* float(val) of a str: blanks stripped, [sign] then inf, infinity, nan or
\* digits [. digits] [e [sign] digits], a digit on one side of the point.
\* kind is "number", "inf", "nan" or "invalid"; a number is negative *
\* digits * 10^scale, inf where that is beyond the doubles.
ParseFloat(val) ==
    LET float(kind, negative, digits, scale) ==
            [kind |-> kind, negative |-> negative, digits |-> digits,
             scale |-> scale]
        ranged(negative, digits, scale) ==
            IF FloatOverflows(digits, scale) THEN float("inf", FALSE, 0, 0)
            ELSE float("number", negative, digits, scale)
        number(negative, ip, fp, has_e, eneg, edigits) ==
            IF /\ \A i \in DOMAIN ip : IsDigit(ip[i])
               /\ \A i \in DOMAIN fp : IsDigit(fp[i])
               /\ ip \o fp # <<>>
               /\ ~has_e \/ IsDigitText(edigits)
            THEN ranged(negative, DigitsValue(ip \o fp),
                        (IF ~has_e THEN 0
                         ELSE IF eneg THEN 0 - DigitsValue(edigits)
                         ELSE DigitsValue(edigits)) - Len(fp))
            ELSE float("invalid", FALSE, 0, 0)
        exponent(negative, ip, fp, has_e, expo, esigned) ==
            number(negative, ip, fp, has_e, esigned /\ expo[1] = "-",
                   IF esigned THEN Tail(expo) ELSE expo)
        mantissa(negative, mant, dot, has_e, expo) ==
            exponent(negative, SubSeq(mant, 1, dot - 1),
                     SubSeq(mant, dot + 1, Len(mant)), has_e, expo,
                     expo # <<>> /\ expo[1] \in Signs)
        pointed(negative, mant, dots, has_e, expo) ==
            IF Cardinality(dots) > 1 THEN float("invalid", FALSE, 0, 0)
            ELSE mantissa(negative, mant,
                          IF dots = {} THEN Len(mant) + 1
                          ELSE CHOOSE i \in dots : TRUE,
                          has_e, expo)
        split(negative, body, epos) ==
            pointed(negative, SubSeq(body, 1, epos - 1),
                    {i \in 1..(epos - 1) : body[i] = "."},
                    epos <= Len(body), SubSeq(body, epos + 1, Len(body)))
        digits(negative, body, es) ==
            split(negative, body,
                  IF es = {} THEN Len(body) + 1
                  ELSE CHOOSE i \in es : \A j \in es : i <= j)
        literal(negative, body, word) ==
            IF word \in {<<"i", "n", "f">>,
                         <<"i", "n", "f", "i", "n", "i", "t", "y">>}
            THEN float("inf", FALSE, 0, 0)
            ELSE IF word = <<"n", "a", "n">>
            THEN float("nan", FALSE, 0, 0)
            ELSE digits(negative, body,
                        {i \in DOMAIN body : body[i] \in {"e", "E"}})
        signed(negative, body) == literal(negative, body, Lower(body))
        stripped(s, sign) ==
            signed(sign /\ s[1] = "-", IF sign THEN Tail(s) ELSE s)
        float_of(s) == stripped(s, s # <<>> /\ s[1] \in Signs)
    IN float_of(Strip(val))

\* int(x) of a float: truncation towards zero
TruncFloat(f) ==
    LET magnitude == IF f.scale >= 0 THEN f.digits * Pow10(f.scale)
                     ELSE IF 0 - f.scale > Len(NatText(f.digits)) THEN 0
                     ELSE f.digits \div Pow10(0 - f.scale)
    IN IF f.negative THEN 0 - magnitude ELSE magnitude

\* safe_int(val) of None or a str.  int(float('inf')) raises OverflowError,
\* which the except clause (ValueError, TypeError) does not catch.
SafeIntRaises(val) == val # NULL /\ ParseFloat(Val(val)).kind = "inf"

SafeInt(val) ==
    IF val = NULL \/ Val(val) = <<>> THEN 0
    ELSE Only({IF f.kind = "number" THEN TruncFloat(f) ELSE 0
               : f \in {ParseFloat(Val(val))}})

\* str.title(): a letter that follows a letter is lowered, any other letter
\* is raised
Title(s) ==
    [i \in DOMAIN s |->
        IF i > 1 /\ IsAlpha(s[i - 1]) THEN LowerChar(s[i]) ELSE UpperChar(s[i])]

\* str.replace('_', ' ')
UnderscoresToSpaces(s) == [i \in DOMAIN s |-> IF s[i] = "_" THEN SP ELSE s[i]]

Months ==
    <<<<"j", "a", "n">>, <<"f", "e", "b">>, <<"m", "a", "r">>,
      <<"a", "p", "r">>, <<"m", "a", "y">>, <<"j", "u", "n">>,
      <<"j", "u", "l">>, <<"a", "u", "g">>, <<"s", "e", "p">>,
      <<"o", "c", "t">>, <<"n", "o", "v">>, <<"d", "e", "c">>>>

Txt_game == <<"g", "a", "m", "e">>

\* parse_filename_for_game_info(filename), on the stem of the file name:
\* re.match(r'game(\d+)_([a-z]+)(\d+)_(.+)', name, re.IGNORECASE).  Each
\* group is followed by a character it cannot hold, so the greedy match is
\* the only one.
ParseFilenameForGameInfo(name) ==
    LET none == [game_date |-> NULL, opponent |-> NULL, game_num |-> NULL]
        n1 == DigitRun(name, 5)
        p2 == 5 + n1 + 1
        n2 == AlphaRun(name, p2)
        p3 == p2 + n2
        n3 == DigitRun(name, p3)
        p4 == p3 + n3 + 1
        matched ==
            /\ Len(name) >= 4
            /\ Lower(SubSeq(name, 1, 4)) = Txt_game
            /\ n1 >= 1
            /\ Len(name) >= 5 + n1 /\ name[5 + n1] = "_"
            /\ n2 >= 1
            /\ n3 >= 1
            /\ Len(name) >= p3 + n3 /\ name[p3 + n3] = "_"
            /\ Len(name) >= p4
        month_str == Lower(SubSeq(name, p2, p2 + n2 - 1))
        abbrev == SubSeq(month_str, 1, IF n2 < 3 THEN n2 ELSE 3)
        day == SubSeq(name, p3, p3 + n3 - 1)
        known == {m \in DOMAIN Months : Months[m] = abbrev}
    IN IF ~matched THEN none
       ELSE [game_num |-> Some(DigitsValue(SubSeq(name, 5, 4 + n1))),
             opponent |->
                 Some(Title(UnderscoresToSpaces(SubSeq(name, p4, Len(name))))),
             game_date |->
                 IF known = {} THEN NULL
                 ELSE Some(NatText(CHOOSE m \in known : TRUE) \o <<"/">> \o day)]

-----------------------------------------------------------------------------
(* Files.  A file is [stem, suffix, readable, headers, lines]: the two parts
   of its name, whether open() succeeds, the cells of its first line and the
   cells of each later line. *)

\* Path(file_path).name
FileName(file) == file.stem \o file.suffix

\* csv.DictReader: the lines without any cell are skipped
DictRows(file) == SelectSeq(file.lines, LAMBDA r : r # <<>>)

\* a line with more cells than the header has: DictReader puts the surplus
\* under the key None
HasRestKey(file, row) == Len(row) > Len(file.headers)

\* row.get(key, default): the cell under the last header named key, None
\* (the restval) where the line is too short, default when no header is
\* named key
RowGet(headers, row, key, default) ==
    LET at == {i \in DOMAIN headers : headers[i] = key}
        last_at == CHOOSE i \in at : \A j \in at : j <= i
    IN IF at = {} THEN default
       ELSE IF last_at <= Len(row) THEN Some(row[last_at])
       ELSE NULL

\* bool(x) of an optional str
Truthy(o) == o # NULL /\ Val(o) # <<>>

\* detect_file_type(file_path)
DetectFileType(file) ==
    LET ext == Lower(file.suffix)
    IN IF ext \in {<<".", "x", "l", "s", "x">>, <<".", "x", "l", "s">>}
       THEN "excel"
       ELSE IF ext = <<".", "c", "s", "v">>
       THEN IF /\ file.readable
               /\ \/ Txt_GcPlayerName \in Range(file.headers)
                  \/ \E i \in DOMAIN file.headers :
                         Contains(Txt_AgCell, file.headers[i])
            THEN "gamechanger_csv"
            ELSE "csv"
       ELSE "unknown"

-----------------------------------------------------------------------------
(* Worksheets.  A worksheet is a function from <<row, column>> to the value
   of the cell; a cell outside its domain is empty (None).  A value is None,
   a str or an int. *)

TextCell(t) == <<"str", t>>

NumCell(n) == <<"num", n>>

IsTextCell(v) == v # NULL /\ v[1] = "str"

IsNumCell(v) == v # NULL /\ v[1] = "num"

\* ws.cell(row=row, column=column).value
Cell(ws, row, column) ==
    IF <<row, column>> \in DOMAIN ws THEN ws[<<row, column>>] ELSE NULL

\* str(n) of an int
IntText(n) == IF n < 0 THEN <<"-">> \o NatText(0 - n) ELSE NatText(n)

\* str(value) of a cell that is not None
CellStr(v) == IF IsNumCell(v) THEN IntText(v[2]) ELSE v[2]

\* bool(value): None, '' and 0 are false
CellTruthy(v) ==
    /\ v # NULL
    /\ IsTextCell(v) => v[2] # <<>>
    /\ IsNumCell(v) => v[2] # 0

\* safe_int(value) of a cell
CellSafeInt(v) ==
    IF v = NULL THEN 0
    ELSE IF IsNumCell(v) THEN v[2]
    ELSE SafeInt(Some(v[2]))

CellSafeIntRaises(v) == IsTextCell(v) /\ SafeIntRaises(Some(v[2]))

\* the number of blanks of s from position i on
SpaceRun(s, i) ==
    LET ends == {j \in i..(Len(s) + 1) :
                     /\ \A k \in i..(j - 1) : s[k] = SP
                     /\ (j = Len(s) + 1 \/ s[j] # SP)}
    IN (CHOOSE j \in ends : TRUE) - i

\* s has word at position i
HasAt(s, i, word) ==
    i + Len(word) - 1 <= Len(s) /\ SubSeq(s, i, i + Len(word) - 1) = word

-----------------------------------------------------------------------------
(* The values the calls are made with *)

Years == {2025}

Txt_Ann == <<"A", "n", "n">>
Txt_AnnR == <<"A", "n", "n", " ", "(", "R", ")">>
Txt_Bo == <<"B", "o">>

Txt_5 == <<"5">>
Txt_7 == <<"7">>

Txt_Vipers == <<"N", "J", " ", "V", "i", "p">>
Txt_VipersWhite == <<"N", "J", " ", "V", "i", "p", " ", "W">>
Txt_Hawks == <<"H", "k">>

Txt_Sep6 == <<"9", "/", "6">>
Txt_Sep7 == <<"9", "/", "7">>

Txt_Storm == <<"S", "t", " ", "1", "2", "U">>
Txt_12U == <<"1", "2", "U">>
Txt_NJ == <<"N", "J">>

PlayerNames == {Txt_Ann, Txt_AnnR, Txt_Bo}
Jerseys == {NULL, Some(Txt_5), Some(Txt_7)}
Locations == {NULL, Some(Txt_NJ)}

SeasonIdArgs == {1}
WinLossArgs == {NULL, Some(<<"W">>), Some(<<"w">>)}
RunsForArgs == {NULL, Some(3), Some(5)}
RunsAgainstArgs == {NULL, Some(2)}
TeamIdArgs == {NULL, Some(1)}
Txt_Note == <<"n">>

NotesArgs == {NULL, Some(Txt_Note)}

-----------------------------------------------------------------------------
(* The files the imports are made with *)

\* game1_sep6_nj_vip.csv: date and opponent in the file name
csv_game ==
    [stem |-> <<"g", "a", "m", "e", "1", "_", "s", "e", "p", "6", "_", "n", "j", "_", "v", "i", "p">>,
     suffix |-> <<".", "c", "s", "v">>, readable |-> TRUE,
     headers |-> <<<<"P", "l", "a", "y", "e", "r">>, <<"A", "B">>, <<"R">>>>,
     lines |-> <<<<<<"A", "n", "n">>, <<"3">>, <<"1">>>>,
                <<<<"B", "o">>, <<"2">>, <<"2">>>>>>]

\* stats.csv: no date anywhere
csv_plain ==
    [stem |-> <<"s", "t", "a", "t", "s">>,
     suffix |-> <<".", "c", "s", "v">>, readable |-> TRUE,
     headers |-> <<<<"P", "l", "a", "y", "e", "r">>, <<"A", "B">>>>,
     lines |-> <<<<<<"A", "n", "n">>, <<"3">>>>>>]

\* stats.csv with a Date column and a first line of two cells
csv_short ==
    [stem |-> <<"s", "t", "a", "t", "s">>,
     suffix |-> <<".", "c", "s", "v">>, readable |-> TRUE,
     headers |-> <<<<"P", "l", "a", "y", "e", "r">>, <<"A", "B">>, <<"D", "a", "t", "e">>>>,
     lines |-> <<<<<<"A", "n", "n">>, <<"3">>>>>>]

\* stats.csv with the date and the opponent in columns
csv_dated ==
    [stem |-> <<"s", "t", "a", "t", "s">>,
     suffix |-> <<".", "c", "s", "v">>, readable |-> TRUE,
     headers |-> <<<<"N", "a", "m", "e">>, <<"R">>, <<"D", "a", "t", "e">>, <<"O", "p", "p">>>>,
     lines |-> <<<<<<"B", "o">>, <<"2">>, <<"9", "/", "6">>, <<"N", "J", " ", "V", "i", "p">>>>>>]

\* box.csv: a GameChanger export
csv_gc ==
    [stem |-> <<"b", "o", "x">>,
     suffix |-> <<".", "c", "s", "v">>, readable |-> TRUE,
     headers |-> <<<<"B", "o", "x", "S", "c", "o", "r", "e", "C", "o", "m", "p", "o", "n", "e", "n", "t", "s", "_", "_", "p", "l", "a", "y", "e", "r", "N", "a", "m", "e">>, <<"a", "g", "-", "c", "e", "l", "l">>, <<"a", "g", "-", "c", "e", "l", "l", " ", "2">>>>,
     lines |-> <<<<<<"A", "n", "n">>, <<"3">>, <<"1">>>>>>]

\* stats.csv without any known column
csv_unknown ==
    [stem |-> <<"s", "t", "a", "t", "s">>,
     suffix |-> <<".", "c", "s", "v">>, readable |-> TRUE,
     headers |-> <<<<"F", "o", "o">>>>,
     lines |-> <<<<<<"x">>>>>>]

\* stats.csv with a header line only
csv_empty ==
    [stem |-> <<"s", "t", "a", "t", "s">>,
     suffix |-> <<".", "c", "s", "v">>, readable |-> TRUE,
     headers |-> <<<<"P", "l", "a", "y", "e", "r">>>>,
     lines |-> <<>>]

\* a path that cannot be opened
csv_missing ==
    [stem |-> <<"s", "t", "a", "t", "s">>,
     suffix |-> <<".", "c", "s", "v">>, readable |-> FALSE,
     headers |-> <<>>,
     lines |-> <<>>]

\* notes.txt
txt_notes ==
    [stem |-> <<"n", "o", "t", "e", "s">>,
     suffix |-> <<".", "t", "x", "t">>, readable |-> TRUE,
     headers |-> <<<<"P", "l", "a", "y", "e", "r">>>>,
     lines |-> <<<<<<"A", "n", "n">>>>>>]

CsvFiles ==
    {csv_game, csv_plain, csv_short, csv_dated, csv_gc, csv_unknown, csv_empty,
     csv_missing, txt_notes}

LegacyCsvFiles == {csv_game, csv_gc}

\* a single-season sheet: team, season in A7, one game, a pitcher and a batter
ws_fall ==
    <<1, 1>> :> TextCell(<<"T", "E", "A", "M", " ", "N", "A", "M", "E", ":", " ", "S", "t", " ", "1", "2", "U">>)
    @@ <<2, 1>> :> TextCell(<<"L", "O", "C", "A", "T", "I", "O", "N", ":", " ", "N", "J">>)
    @@ <<7, 1>> :> TextCell(<<"F", "A", "L", "L", " ", "2", "0", "2", "5", " ", "R", "E", "C", "O", "R", "D">>)
    @@ <<9, 7>> :> TextCell(<<"#">>)
    @@ <<9, 8>> :> TextCell(<<"P", "L", "A", "Y", "E", "R">>)
    @@ <<9, 26>> :> TextCell(<<"P", "L", "A", "Y", "E", "R">>)
    @@ <<10, 1>> :> TextCell(<<"9", "/", "6", " ", "v", "s", ".", " ", "N", "J", " ", "V", "i", "p", " ", "W">>)
    @@ <<10, 2>> :> TextCell(<<"W">>)
    @@ <<10, 3>> :> NumCell(3)
    @@ <<10, 4>> :> NumCell(2)
    @@ <<10, 7>> :> NumCell(7)
    @@ <<10, 8>> :> TextCell(<<"B", "o", " ", "(", "R", ")">>)
    @@ <<10, 25>> :> NumCell(5)
    @@ <<10, 26>> :> TextCell(<<"A", "n", "n">>)

\* the same sheet with a second game whose result cell is 'w'
ws_bad ==
    <<1, 1>> :> TextCell(<<"T", "E", "A", "M", " ", "N", "A", "M", "E", ":", " ", "S", "t", " ", "1", "2", "U">>)
    @@ <<2, 1>> :> TextCell(<<"L", "O", "C", "A", "T", "I", "O", "N", ":", " ", "N", "J">>)
    @@ <<7, 1>> :> TextCell(<<"F", "A", "L", "L", " ", "2", "0", "2", "5", " ", "R", "E", "C", "O", "R", "D">>)
    @@ <<9, 7>> :> TextCell(<<"#">>)
    @@ <<9, 8>> :> TextCell(<<"P", "L", "A", "Y", "E", "R">>)
    @@ <<9, 26>> :> TextCell(<<"P", "L", "A", "Y", "E", "R">>)
    @@ <<10, 1>> :> TextCell(<<"9", "/", "6", " ", "v", "s", ".", " ", "N", "J", " ", "V", "i", "p", " ", "W">>)
    @@ <<10, 2>> :> TextCell(<<"W">>)
    @@ <<10, 3>> :> NumCell(3)
    @@ <<10, 4>> :> NumCell(2)
    @@ <<10, 7>> :> NumCell(7)
    @@ <<10, 8>> :> TextCell(<<"B", "o", " ", "(", "R", ")">>)
    @@ <<10, 25>> :> NumCell(5)
    @@ <<10, 26>> :> TextCell(<<"A", "n", "n">>)
    @@ <<11, 1>> :> TextCell(<<"9", "/", "7", " ", "v", "s", " ", "H", "k">>)
    @@ <<11, 2>> :> TextCell(<<"w">>)
    @@ <<11, 3>> :> NumCell(1)
    @@ <<11, 4>> :> NumCell(0)

\* a multi-season sheet without a team: two blocks, the first season mentioned twice
ws_multi ==
    <<1, 1>> :> TextCell(<<"F", "a", "l", "l", " ", "2", "0", "2", "4">>)
    @@ <<4, 1>> :> TextCell(<<"9", "/", "6", " ", "v", "s", ".", " ", "H", "k">>)
    @@ <<4, 2>> :> TextCell(<<"W">>)
    @@ <<4, 3>> :> NumCell(5)
    @@ <<4, 4>> :> NumCell(2)
    @@ <<4, 23>> :> NumCell(5)
    @@ <<4, 24>> :> TextCell(<<"A", "n", "n">>)
    @@ <<6, 1>> :> TextCell(<<"S", "P", "R", "I", "N", "G", " ", "2", "0", "2", "5">>)
    @@ <<9, 1>> :> TextCell(<<"9", "/", "7", " ", "v", "s", ".", " ", "H", "k">>)
    @@ <<9, 2>> :> TextCell(<<"L">>)
    @@ <<9, 3>> :> NumCell(1)
    @@ <<9, 4>> :> NumCell(4)
    @@ <<9, 8>> :> TextCell(<<"B", "o">>)
    @@ <<12, 1>> :> TextCell(<<"f", "a", "l", "l", " ", "2", "0", "2", "4", " ", "a", "g", "a", "i", "n">>)

\* a sheet with a game and no season marker
ws_noseason ==
    <<10, 1>> :> TextCell(<<"9", "/", "6", " ", "v", "s", ".", " ", "H", "k">>)
    @@ <<10, 2>> :> TextCell(<<"W">>)
    @@ <<10, 3>> :> NumCell(5)
    @@ <<10, 4>> :> NumCell(2)

\* fall.xlsx
xl_fall ==
    [stem |-> <<"f", "a", "l", "l">>, suffix |-> <<".", "x", "l", "s", "x">>,
     readable |-> TRUE, sheets |-> <<ws_fall>>]

\* bad.xlsx
xl_bad ==
    [stem |-> <<"b", "a", "d">>, suffix |-> <<".", "x", "l", "s", "x">>,
     readable |-> TRUE, sheets |-> <<ws_bad>>]

\* multi.xlsx
xl_multi ==
    [stem |-> <<"m", "u", "l", "t", "i">>, suffix |-> <<".", "x", "l", "s", "x">>,
     readable |-> TRUE, sheets |-> <<ws_multi>>]

\* two.xlsx: the second sheet names the team
xl_two ==
    [stem |-> <<"t", "w", "o">>, suffix |-> <<".", "x", "l", "s", "x">>,
     readable |-> TRUE, sheets |-> <<ws_noseason, ws_fall>>]

\* corrupt.xlsx: load_workbook raises
xl_corrupt ==
    [stem |-> <<"c", "o", "r", "r", "u", "p", "t">>, suffix |-> <<".", "x", "l", "s", "x">>,
     readable |-> FALSE, sheets |-> <<ws_fall>>]

Workbooks == {xl_fall, xl_bad, xl_multi, xl_two, xl_corrupt}

DateOverrides == {NULL, Some(Txt_Sep6)}

SeasonIdOverrides == {NULL, Some(1)}

-----------------------------------------------------------------------------
(* importer.py: import_gamechanger_csv *)

\* an import returned report, having left the tables db
Reported(db, report) == [db |-> db, raised |-> FALSE, report |-> report]

NoReport == [file_type |-> "none"]

\* an import raised: the calls it had made on the database stay committed
Aborted(db) == [db |-> db, raised |-> TRUE, report |-> NoReport]

\* the results dict at the start of import_gamechanger_csv
CsvResults ==
    [game_id |-> NULL, stats_imported |-> 0, detected_fields |-> {},
     missing_fields |-> <<>>, errors |-> <<>>, file_type |-> "csv"]

\* list(rows[0].keys()): each header once, in the order of its first column
RECURSIVE Keys(_)
Keys(headers) ==
    IF headers = <<>> THEN <<>>
    ELSE LET rest == Keys(SubSeq(headers, 1, Len(headers) - 1))
             h == headers[Len(headers)]
         IN IF h \in Range(rest) THEN rest ELSE Append(rest, h)

\* first_row.get(reverse_map[field], '')
MetaCell(headers, first_row, reverse_map, field) ==
    RowGet(headers, first_row, DictGet(reverse_map, field), Some(<<>>))

\* the text of a cell, '' for a cell that is not there
TextOf(o) == IF o = NULL THEN <<>> ELSE Val(o)

StrippedFields == {"game_date", "game_time", "opponent", "win_loss"}

\* .strip() on the None of a line too short raises AttributeError
MetaRaises(headers, first_row, reverse_map) ==
    \E field \in StrippedFields :
        /\ DictHas(reverse_map, field)
        /\ MetaCell(headers, first_row, reverse_map, field) = NULL

WinLossWords ==
    {<<"W">>, <<"L">>, <<"T">>, <<"W", "I", "N">>, <<"L", "O", "S", "S">>,
     <<"T", "I", "E">>}

\* the game fields as import_gamechanger_csv resolves them: the argument,
\* else the first data row, else (date and opponent) the file name
ResolveGameInfo(file, first_row, reverse_map, game_date, game_time, opponent, win_loss, runs_for, runs_against) ==
    LET stripped(field) ==
            IF DictHas(reverse_map, field)
            THEN Strip(TextOf(MetaCell(file.headers, first_row, reverse_map,
                                       field)))
            ELSE <<>>
        resolved(csv_date, csv_time, csv_opponent, csv_wl, csv_rf, csv_ra, file_info) ==
            LET wl_found == csv_wl \in WinLossWords
                rf_found == IsDigitText(csv_rf)
                ra_found == IsDigitText(csv_ra)
                date1 == IF csv_date # <<>> /\ ~Truthy(game_date)
                         THEN Some(csv_date) ELSE game_date
                time1 == IF csv_time # <<>> /\ ~Truthy(game_time)
                         THEN Some(csv_time) ELSE game_time
                opp1 == IF csv_opponent # <<>> /\ ~Truthy(opponent)
                        THEN Some(csv_opponent) ELSE opponent
                date_from_file ==
                    ~Truthy(date1) /\ Truthy(file_info.game_date)
                opp_from_file == ~Truthy(opp1) /\ Truthy(file_info.opponent)
                date2 == IF date_from_file THEN file_info.game_date
                         ELSE date1
                opp2 == IF opp_from_file THEN file_info.opponent ELSE opp1
                wl2 == IF wl_found /\ ~Truthy(win_loss)
                       THEN Some(<<csv_wl[1]>>) ELSE win_loss
                rf2 == IF rf_found /\ runs_for = NULL
                       THEN Some(DigitsValue(csv_rf)) ELSE runs_for
                ra2 == IF ra_found /\ runs_against = NULL
                       THEN Some(DigitsValue(csv_ra)) ELSE runs_against
            IN [game_date |-> date2, game_time |-> time1, opponent |-> opp2,
                win_loss |-> wl2, runs_for |-> rf2, runs_against |-> ra2,
                detected_fields |->
                    (IF csv_date # <<>>
                     THEN {<<"game_date", csv_date>>} ELSE {})
                    \cup (IF csv_time # <<>>
                          THEN {<<"game_time", csv_time>>} ELSE {})
                    \cup (IF csv_opponent # <<>>
                          THEN {<<"opponent", csv_opponent>>} ELSE {})
                    \cup (IF wl_found
                          THEN {<<"win_loss", <<csv_wl[1]>>>>} ELSE {})
                    \cup (IF rf_found
                          THEN {<<"runs_for", DigitsValue(csv_rf)>>}
                          ELSE {})
                    \cup (IF ra_found
                          THEN {<<"runs_against", DigitsValue(csv_ra)>>}
                          ELSE {})
                    \cup (IF date_from_file
                          THEN {<<"game_date_from_filename", Val(date2)>>}
                          ELSE {})
                    \cup (IF opp_from_file
                          THEN {<<"opponent_from_filename", Val(opp2)>>}
                          ELSE {}),
                missing_fields |->
                    (IF ~Truthy(date2) THEN <<"game_date">> ELSE <<>>)
                    \o (IF ~Truthy(time1) THEN <<"game_time">> ELSE <<>>)
                    \o (IF ~Truthy(opp2) THEN <<"opponent">> ELSE <<>>)
                    \o (IF wl2 = NULL THEN <<"win_loss">> ELSE <<>>)
                    \o (IF rf2 = NULL THEN <<"runs_for">> ELSE <<>>)
                    \o (IF ra2 = NULL THEN <<"runs_against">> ELSE <<>>)]
    IN Only({resolved(csv_date, csv_time, csv_opponent, csv_wl, csv_rf,
                      csv_ra, file_info)
             : csv_date \in {stripped("game_date")},
               csv_time \in {stripped("game_time")},
               csv_opponent \in {stripped("opponent")},
               csv_wl \in {Upper(stripped("win_loss"))},
               csv_rf \in {stripped("runs_for")},
               csv_ra \in {stripped("runs_against")},
               file_info \in {ParseFilenameForGameInfo(file.stem)}})

\* the keywords of the create_game call of import_gamechanger_csv
ImporterCreateGameKeywords ==
    {"season_id", "game_date", "game_time", "opponent_name", "win_loss",
     "runs_for", "runs_against", "notes"}

\* a call with a keyword the function does not declare raises TypeError
\* before the body runs
CallCreateGame(db, keywords, season_id, game_date, opponent_name, win_loss, runs_for, runs_against, notes) ==
    IF keywords \subseteq CreateGameParams
    THEN CreateGame(db, season_id, game_date, opponent_name, win_loss,
                    runs_for, runs_against, NULL, notes)
    ELSE {Raised(db)}

\* reverse_map.get(field, '')
StatKey(reverse_map, field) ==
    IF DictHas(reverse_map, field) THEN DictGet(reverse_map, field) ELSE <<>>

\* safe_int(row.get(key, 0))
StatValue(headers, row, key) ==
    IF key \notin Range(headers) THEN 0
    ELSE SafeInt(RowGet(headers, row, key, NULL))

StatRaises(headers, row, key) ==
    key \in Range(headers) /\ SafeIntRaises(RowGet(headers, row, key, NULL))

StatFields == {"ab", "r", "h", "rbi", "bb", "so", "hbp", "sac"}

\* the stat line of one row
StatLine(headers, row, reverse_map) ==
    [field \in StatFields |->
        StatValue(headers, row, StatKey(reverse_map, field))]

\* sum(safe_int(row.get(runs_col, 0)) for row in rows)
RECURSIVE SumRuns(_, _, _)
SumRuns(headers, rows, runs_col) ==
    IF rows = <<>> THEN 0
    ELSE StatValue(headers, Head(rows), runs_col)
         + SumRuns(headers, Tail(rows), runs_col)

\* what the loop over the rows reads from one row: whether the cell of the
\* player column is None (a line too short), the stripped name, whether a
\* safe_int of the row raises, and the stat line
StatEntry(headers, row, reverse_map) ==
    LET cell == IF DictHas(reverse_map, "player_name")
                THEN RowGet(headers, row, DictGet(reverse_map, "player_name"),
                            Some(<<>>))
                ELSE Some(<<>>)
    IN [no_cell |-> cell = NULL,
        player_name |-> Strip(TextOf(cell)),
        raises |-> \E field \in StatFields :
                       StatRaises(headers, row, StatKey(reverse_map, field)),
        line |-> StatLine(headers, row, reverse_map)]

StatEntries(headers, rows, reverse_map) ==
    [i \in DOMAIN rows |-> StatEntry(headers, rows[i], reverse_map)]

\* the loop over the rows: a player and a batting line per row that names a
\* player, each in its own transaction; n counts the lines added
RECURSIVE ImportStatRows(_, _, _, _)
ImportStatRows(db, entries, game_id, n) ==
    IF entries = <<>> THEN [db |-> db, raised |-> FALSE, stats_imported |-> n]
    ELSE IF Head(entries).no_cell      \* None.strip(): AttributeError
    THEN [db |-> db, raised |-> TRUE, stats_imported |-> n]
    ELSE IF Head(entries).player_name = <<>>
    THEN ImportStatRows(db, Tail(entries), game_id, n)
    ELSE Only({
        IF player.raised
        THEN [db |-> db, raised |-> TRUE, stats_imported |-> n]
        ELSE IF Head(entries).raises
        THEN [db |-> player.db, raised |-> TRUE, stats_imported |-> n]
        ELSE Only({
            IF added.raised
            THEN [db |-> player.db, raised |-> TRUE, stats_imported |-> n]
            ELSE ImportStatRows(added.db, Tail(entries), game_id, n + 1)
            : added \in {AddBattingStats(player.db, game_id, player.id,
                                         Head(entries).line)}})
        : player \in {GetOrCreatePlayer(db, Head(entries).player_name,
                                        NULL)}})

Txt_ImportedFromCsv ==
    <<"I", "m", "p", "o", "r", "t", "e", "d", " ", "f", "r", "o", "m", " ",
      "C", "S", "V", " ", "(">>

\* format_type as it is printed
FormatText(format_type) ==
    IF format_type = "gamechanger"
    THEN <<"g", "a", "m", "e", "c", "h", "a", "n", "g", "e", "r">>
    ELSE <<"s", "t", "a", "n", "d", "a", "r", "d">>

\* f"Imported from CSV ({format_type}): {Path(file_path).name}"
CsvNotes(file, format_type) ==
    Txt_ImportedFromCsv \o FormatText(format_type) \o <<")", ":", " ">>
    \o FileName(file)

\* the stat rows, once create_game has answered
ImportCsvStats(game, entries, results) ==
    IF game.raised THEN Aborted(game.db)
    ELSE Only({
        IF stats.raised THEN Aborted(stats.db)
        ELSE Reported(stats.db,
                      [results EXCEPT
                           !.game_id = Some(game.id),
                           !.stats_imported = stats.stats_imported])
        : stats \in {ImportStatRows(game.db, entries, game.id, 0)}})

\* import_gamechanger_csv up to its first call on the database: the report
\* of an early return, a raise, or the game and the stat rows it goes on to
\* write
CsvPlan(file, game_date, game_time, opponent, win_loss, runs_for, runs_against) ==
    LET returns(report) == [step |-> "return", report |-> report]
        raises == [step |-> "raise"]
        game(rows, format_type, reverse_map, info, summed) ==
            LET results == [CsvResults EXCEPT
                                !.detected_fields = info.detected_fields,
                                !.missing_fields = info.missing_fields]
                runs_col == DictGet(reverse_map, "r")
            IN IF ~Truthy(info.game_date)
               THEN returns([results EXCEPT
                                 !.errors = <<"Game date is required">>])
               ELSE IF summed /\ \E i \in DOMAIN rows :
                                     StatRaises(file.headers, rows[i],
                                                runs_col)
               THEN raises
               ELSE [step |-> "game",
                     results |-> results,
                     game_date |-> Val(info.game_date),
                     opponent |-> IF Truthy(info.opponent)
                                  THEN Val(info.opponent)
                                  ELSE file.stem,
                     win_loss |-> info.win_loss,
                     runs_for |-> IF summed
                                  THEN Some(SumRuns(file.headers, rows,
                                                    runs_col))
                                  ELSE info.runs_for,
                     runs_against |-> info.runs_against,
                     notes |-> Some(CsvNotes(file, format_type)),
                     entries |-> StatEntries(file.headers, rows,
                                             reverse_map)]
        mapped(rows, format_type, reverse_map) ==
            IF MetaRaises(file.headers, rows[1], reverse_map)
            THEN raises           \* None.strip(): AttributeError
            ELSE Only({
                game(rows, format_type, reverse_map, info,
                     info.runs_for = NULL /\ DictHas(reverse_map, "r"))
                : info \in {ResolveGameInfo(file, rows[1], reverse_map,
                                            game_date, game_time, opponent,
                                            win_loss, runs_for,
                                            runs_against)}})
        read(rows) ==
            Only({
                IF /\ detected.format_type # "gamechanger"
                   /\ HasRestKey(file, rows[1])
                THEN raises       \* None.lower(): AttributeError
                ELSE IF \/ detected.format_type = "unknown"
                        \/ detected.col_map = <<>>
                THEN returns([CsvResults EXCEPT
                                  !.errors = <<"Could not detect CSV format">>])
                ELSE Only({
                    mapped(rows, detected.format_type, reverse_map)
                    : reverse_map \in {ReverseMap(detected.col_map)}})
                : detected \in {Only({DetectCsvFormat(headers)
                                  : headers \in {Keys(file.headers)}})}})
    IN IF ~file.readable
       THEN returns([CsvResults EXCEPT !.errors = <<"Failed to read CSV">>])
       ELSE Only({
           IF rows = <<>>
           THEN returns([CsvResults EXCEPT
                             !.errors = <<"CSV file is empty">>])
           ELSE read(rows)
           : rows \in {DictRows(file)}})

\* from the create_game call on: the game, then the stat rows
ImportCsvGame(db, season_id, plan) ==
    {ImportCsvStats(game, plan.entries, plan.results) :
        game \in CallCreateGame(db, ImporterCreateGameKeywords, season_id,
                                plan.game_date, plan.opponent, plan.win_loss,
                                plan.runs_for, plan.runs_against, plan.notes)}

\* import_gamechanger_csv(file_path, season_id, game_date, game_time,
\* opponent, win_loss, runs_for, runs_against)
ImportGamechangerCsv(db, file, season_id, game_date, game_time, opponent, win_loss, runs_for, runs_against) ==
    UNION {
        IF plan.step = "return" THEN {Reported(db, plan.report)}
        ELSE IF plan.step = "raise" THEN {Aborted(db)}
        ELSE ImportCsvGame(db, season_id, plan)
        : plan \in {CsvPlan(file, game_date, game_time, opponent, win_loss,
                              runs_for, runs_against)}}

-----------------------------------------------------------------------------
(* importer.py: the parsers of the Excel importer *)

Txt_FALL == <<"F", "A", "L", "L">>

Txt_SPRING == <<"S", "P", "R", "I", "N", "G">>

\* (FALL|SPRING)\s+(\d{4}) matches u at position i with this word
SeasonAt(u, i, word) ==
    LET j == i + Len(word)
        k == j + SpaceRun(u, j)
    IN /\ HasAt(u, i, word)
       /\ k > j
       /\ k + 3 <= Len(u)
       /\ \A d \in k..(k + 3) : IsDigit(u[d])

\* parse_season_from_text(text): re.search on text.upper(), the leftmost
\* match; None where there is none
ParseSeasonFromText(text) ==
    LET season(u, word, k) ==
            [season_type |-> IF word = Txt_FALL THEN "Fall" ELSE "Spring",
             year |-> DigitsValue(SubSeq(u, k, k + 3))]
        matched(u, i, word) ==
            season(u, word, i + Len(word) + SpaceRun(u, i + Len(word)))
        leftmost(u, i) ==
            matched(u, i,
                    IF SeasonAt(u, i, Txt_FALL) THEN Txt_FALL ELSE Txt_SPRING)
        search(u, hits) ==
            IF hits = {} THEN NULL
            ELSE leftmost(u, CHOOSE h \in hits : \A g \in hits : h <= g)
        upper(u) ==
            search(u, {i \in DOMAIN u :
                          SeasonAt(u, i, Txt_FALL) \/ SeasonAt(u, i, Txt_SPRING)})
    IN upper(Upper(text))

\* "season_type and year": a season was parsed and its year is not 0
SeasonResolved(season) == season # NULL /\ season.year # 0

\* parse_season_from_text(str(cell_val)) of a cell that is true
CellSeason(v) ==
    IF CellTruthy(v) THEN ParseSeasonFromText(CellStr(v)) ELSE NULL

Txt_vs == <<"v", "s">>

\* parse_game_entry(text):
\* re.match(r'^(\d{1,2}/\d{1,2})\s+vs\.?\s+(.+)$', str(text).strip());
\* None where the text is false or does not match, or the opponent is ''
ParseGameEntry(v) ==
    LET entry(s, p, r, t) ==
            IF t > r /\ t <= Len(s)
            THEN [game_date |-> SubSeq(s, 1, p - 1),
                  opponent |-> Strip(SubSeq(s, t, Len(s)))]
            ELSE NULL
        versus(s, p, q, r) ==
            IF q > p /\ HasAt(s, q, Txt_vs)
            THEN entry(s, p, r, r + SpaceRun(s, r))
            ELSE NULL
        spaced(s, p, q) ==
            versus(s, p, q, IF HasAt(s, q + 2, <<".">>) THEN q + 3 ELSE q + 2)
        day(s, p) == spaced(s, p, p + SpaceRun(s, p))
        slash(s, d1, d2) ==
            IF d2 \in {1, 2} THEN day(s, d1 + 2 + d2) ELSE NULL
        month(s, d1) ==
            IF d1 \in {1, 2} /\ HasAt(s, d1 + 1, <<"/">>)
            THEN slash(s, d1, DigitRun(s, d1 + 2))
            ELSE NULL
        stripped(s) == month(s, DigitRun(s, 1))
    IN IF CellTruthy(v) THEN stripped(Strip(CellStr(v))) ELSE NULL

HeaderNames ==
    {<<"P", "L", "A", "Y", "E", "R">>, <<"N", "A", "M", "E">>,
     <<"P", "L", "A", "Y", "E", "R", "S">>, <<"#">>, <<>>}

Txt_TOTALS == <<"T", "O", "T", "A", "L", "S">>

HeaderJerseys ==
    {<<"#">>, <<"N", "O">>, <<"N", "O", ".">>, <<"N", "U", "M">>,
     <<"N", "U", "M", "B", "E", "R">>, <<"J", "E", "R", "S", "E", "Y">>}

\* re.sub(r'\s*\([RLS]\)\s*$', '', name) of a stripped name
DropHandedness(s) ==
    LET n == Len(s)
    IN IF n >= 3 /\ s[n] = ")" /\ s[n - 1] \in Handedness /\ s[n - 2] = "("
       THEN RStrip(SubSeq(s, 1, n - 3))
       ELSE s

\* clean_player_name(name): '' for a false cell and for a header word
CleanPlayerName(v) ==
    LET name == Strip(CellStr(v))
    IN IF ~CellTruthy(v) THEN <<>>
       ELSE IF Upper(name) \in HeaderNames THEN <<>>
       ELSE Strip(DropHandedness(name))

\* a test on the name cell alone
IsHeaderOrInvalidPlayer_NameOnly(name, jersey) ==
    \/ ~CellTruthy(name)
    \/ Upper(Strip(CellStr(name))) \in HeaderNames \cup {Txt_TOTALS}

\* is_header_or_invalid_player(name, jersey)
IsHeaderOrInvalidPlayer(name, jersey) ==
    \/ ~CellTruthy(name)
    \/ Upper(Strip(CellStr(name))) \in HeaderNames \cup {Txt_TOTALS}
    \/ jersey # NULL /\ Upper(Strip(CellStr(jersey))) \in HeaderJerseys

\* format_jersey(val) raises: int(float('inf')) is an OverflowError, which
\* the except clause does not catch
FormatJerseyRaises(v) ==
    /\ IsTextCell(v)
    /\ v[2] # <<>>
    /\ Upper(Strip(v[2])) \notin HeaderJerseys
    /\ ParseFloat(v[2]).kind = "inf"

\* format_jersey(val): the whole number as a str, else the stripped text,
\* None for an empty cell and for a header word
FormatJersey(v) ==
    LET text(f) ==
            IF f.kind = "number" THEN Some(IntText(TruncFloat(f)))
            ELSE IF Strip(v[2]) # <<>> THEN Some(Strip(v[2]))
            ELSE NULL
    IN IF v = NULL \/ v = TextCell(<<>>) THEN NULL
       ELSE IF Upper(Strip(CellStr(v))) \in HeaderJerseys THEN NULL
       ELSE IF IsNumCell(v) THEN Some(IntText(v[2]))
       ELSE text(ParseFloat(v[2]))

\* the value SQLite stores in the TEXT column win_loss for a cell
WinLossOfCell(v) == IF v = NULL THEN NULL ELSE Some(CellStr(v))

-----------------------------------------------------------------------------
(* importer.py: team information of a worksheet *)

Txt_TEAM_NAME == <<"T", "E", "A", "M", " ", "N", "A", "M", "E", ":">>

Txt_LOCATION == <<"L", "O", "C", "A", "T", "I", "O", "N", ":">>

\* cell_str.split(':', 1)[1].strip() of a text that holds a colon
AfterColon(s) ==
    LET colons == {i \in DOMAIN s : s[i] = ":"}
        first == CHOOSE i \in colons : \A j \in colons : i <= j
    IN Strip(SubSeq(s, first + 1, Len(s)))

\* re.search(r'(\d{1,2}U)', full_name, re.IGNORECASE), group 1 in upper
\* case: the leftmost digit followed by U or by a digit and U
AgeGroupIn(s) ==
    LET two(i) == /\ i + 2 <= Len(s)
                  /\ IsDigit(s[i]) /\ IsDigit(s[i + 1])
                  /\ UpperChar(s[i + 2]) = "U"
        one(i) == /\ i + 1 <= Len(s)
                  /\ IsDigit(s[i])
                  /\ UpperChar(s[i + 1]) = "U"
        hits == {i \in DOMAIN s : two(i) \/ one(i)}
        i == CHOOSE h \in hits : \A g \in hits : h <= g
    IN IF hits = {} THEN NULL
       ELSE IF two(i) THEN Some(Upper(SubSeq(s, i, i + 2)))
       ELSE Some(Upper(SubSeq(s, i, i + 1)))

NoTeamInfo ==
    [team_name |-> NULL, age_group |-> NULL, location |-> NULL,
     full_name |-> NULL]

\* the body of the loop of extract_team_info for one cell of column 1
TeamInfoStep(team_info, v) ==
    LET named(full_name, age_group) ==
            [team_info EXCEPT
                 !.full_name = Some(full_name),
                 !.team_name = Some(full_name),
                 !.age_group = IF age_group # NULL THEN age_group ELSE @]
        team_name(full_name) == named(full_name, AgeGroupIn(full_name))
        step(cell_str, upper) ==
            IF Contains(Txt_TEAM_NAME, upper)
            THEN team_name(AfterColon(cell_str))
            ELSE IF Contains(Txt_LOCATION, upper)
            THEN [team_info EXCEPT !.location = Some(AfterColon(cell_str))]
            ELSE team_info
        cell(cell_str) == step(cell_str, Upper(cell_str))
    IN IF ~CellTruthy(v) THEN team_info ELSE cell(Strip(CellStr(v)))

\* extract_team_info(ws), after the rows 1 to row
RECURSIVE ExtractTeamInfoTo(_, _)
ExtractTeamInfoTo(ws, row) ==
    IF row = 0 THEN NoTeamInfo
    ELSE TeamInfoStep(ExtractTeamInfoTo(ws, row - 1), Cell(ws, row, 1))

HeaderRows == 9

\* extract_team_info(ws): for row in range(1, 10)
ExtractTeamInfo(ws) == ExtractTeamInfoTo(ws, HeaderRows)

\* int(age_group.replace('U', ''))
SortOrderOf(age_group) ==
    DigitsValue(SelectSeq(age_group, LAMBDA c : c # "U"))

\* get_or_create_team_from_info(team_info): the tables and the team id, None
\* without an age group or a team name
GetOrCreateTeamFromInfo(db, team_info) ==
    LET made(age_group, team) ==
            IF team.raised
            THEN [db |-> age_group.db, team_id |-> NULL, raised |-> TRUE]
            ELSE [db |-> team.db, team_id |-> Some(team.id), raised |-> FALSE]
        team_of(age_group) ==
            made(age_group,
                 GetOrCreateOurTeam(age_group.db, Val(team_info.team_name),
                                    age_group.id, team_info.location))
    IN IF ~Truthy(team_info.age_group) \/ ~Truthy(team_info.team_name)
       THEN [db |-> db, team_id |-> NULL, raised |-> FALSE]
       ELSE team_of(GetOrCreateAgeGroup(
                        db, Val(team_info.age_group),
                        SortOrderOf(Val(team_info.age_group))))

-----------------------------------------------------------------------------
(* importer.py: the scan of the rows of a sheet *)

\* the columns of import_fall_sheet
FallLayout ==
    [pitcher_name |-> 8, pitcher_jersey |-> 7,
     pitcher_stats |-> {9, 11, 13, 15, 17, 20, 21, 22},
     batter_name |-> 26, batter_jersey |-> 25, batter_stats |-> 27..32]

\* the columns of import_season_block
BlockLayout ==
    [pitcher_name |-> 8, pitcher_jersey |-> 7,
     pitcher_stats |-> {9, 11, 12, 14, 16, 18, 19, 20},
     batter_name |-> 24, batter_jersey |-> 23, batter_stats |-> 25..30]

NothingScanned ==
    [games |-> <<>>, batting_players |-> <<>>, pitching_players |-> <<>>,
     raised |-> FALSE]

\* the row names a player: a clean name, and not a header row
NamesPlayer(ws, row, name_column, jersey_column) ==
    /\ CleanPlayerName(Cell(ws, row, name_column)) # <<>>
    /\ ~IsHeaderOrInvalidPlayer(Cell(ws, row, name_column),
                                Cell(ws, row, jersey_column))

\* a safe_int of the row raises
ScanRowRaises(ws, row, layout, is_game, is_pitcher, is_batter) ==
    \E c \in (IF is_game THEN {3, 4} ELSE {})
                 \cup (IF is_pitcher THEN layout.pitcher_stats ELSE {})
                 \cup (IF is_batter THEN layout.batter_stats ELSE {}) :
        CellSafeIntRaises(Cell(ws, row, c))

\* the body of the scan loop for one row: the game of column 1 is appended,
\* the pitcher and the batter are entered under their clean names with
\* their jersey cells
ScanRow(ws, row, layout, found) ==
    LET scanned(game, is_pitcher, is_batter, names, scores) ==
            IF ScanRowRaises(ws, row, layout, game # NULL, is_pitcher,
                             is_batter)
            THEN [found EXCEPT !.raised = TRUE]
            ELSE [found EXCEPT
                      !.games =
                          IF game = NULL THEN @
                          ELSE Append(@, [game_date |-> game.game_date,
                                          opponent |-> game.opponent,
                                          w_l |-> Cell(ws, row, 2),
                                          rf |-> scores[3],
                                          ra |-> scores[4]]),
                      !.pitching_players =
                          IF is_pitcher
                          THEN DictSet(@, names[layout.pitcher_name],
                                       Cell(ws, row, layout.pitcher_jersey))
                          ELSE @,
                      !.batting_players =
                          IF is_batter
                          THEN DictSet(@, names[layout.batter_name],
                                       Cell(ws, row, layout.batter_jersey))
                          ELSE @]
        row_of(game, is_player) ==
            scanned(game, is_player[layout.pitcher_name],
                    is_player[layout.batter_name],
                    [c \in {layout.pitcher_name, layout.batter_name} |->
                        CleanPlayerName(Cell(ws, row, c))],
                    [c \in {3, 4} |-> CellSafeInt(Cell(ws, row, c))])
    IN IF found.raised THEN found
       ELSE row_of(ParseGameEntry(Cell(ws, row, 1)),
                   [c \in {layout.pitcher_name, layout.batter_name} |->
                       NamesPlayer(ws, row, c, c - 1)])

\* the scan of the rows, in the order given
RECURSIVE ScanRows(_, _, _)
ScanRows(ws, rows, layout) ==
    IF rows = <<>> THEN NothingScanned
    ELSE ScanRow(ws, rows[Len(rows)], layout,
                 ScanRows(ws, SubSeq(rows, 1, Len(rows) - 1), layout))

RECURSIVE Ascending(_)
Ascending(S) ==
    IF S = {} THEN <<>>
    ELSE LET m == CHOOSE x \in S : \A y \in S : x <= y
         IN <<m>> \o Ascending(S \ {m})

\* the rows of lo..hi that hold a cell, ascending; a row without any cell
\* adds nothing to a scan
RowsWithin(ws, lo, hi) ==
    Ascending({p[1] : p \in {q \in DOMAIN ws : lo <= q[1] /\ q[1] <= hi}})

ScanCeiling == 500

\* the break without the rows after: the scan stops at the first empty row
FallScanStops_AtFirstEmpty(ws, row) ==
    /\ ~CellTruthy(Cell(ws, row, 1))
    /\ CleanPlayerName(Cell(ws, row, 8)) = <<>>
    /\ CleanPlayerName(Cell(ws, row, 26)) = <<>>

Lookahead == 4

\* the break of the loop of import_fall_sheet: no game entry, no pitcher and
\* no batter in the row, and nothing in the three columns of the next rows
FallScanStops(ws, row) ==
    /\ ~CellTruthy(Cell(ws, row, 1))
    /\ CleanPlayerName(Cell(ws, row, FallLayout.pitcher_name)) = <<>>
    /\ CleanPlayerName(Cell(ws, row, FallLayout.batter_name)) = <<>>
    /\ \A check_row \in (row + 1)..(row + Lookahead) :
           /\ ~CellTruthy(Cell(ws, check_row, 1))
           /\ ~CellTruthy(Cell(ws, check_row, FallLayout.pitcher_name))
           /\ ~CellTruthy(Cell(ws, check_row, FallLayout.batter_name))

\* the last row the loop of import_fall_sheet looks at, from row on: the
\* first row below 500 at which the loop breaks, row 499 where it never does
FallScanEnd(ws, row) ==
    LET first(stops) ==
            IF stops = {} THEN ScanCeiling - 1
            ELSE CHOOSE r \in stops : \A q \in stops : r <= q
    IN first({r \in row..(ScanCeiling - 1) : FallScanStops(ws, r)})

FirstDataRow == 9

-----------------------------------------------------------------------------
(* importer.py: the writes of a sheet *)

\* the jersey of a name: that of the batting table if the name is there
JerseyOf(name, found) ==
    IF DictHas(found.batting_players, name)
    THEN DictGet(found.batting_players, name)
    ELSE DictGet(found.pitching_players, name)

\* the names of the scan
FoundNames(found) ==
    {found.batting_players[i][1] : i \in DOMAIN found.batting_players}
    \cup {found.pitching_players[i][1] : i \in DOMAIN found.pitching_players}

\* get_or_create_player for each of names, in the order a Python set of str
\* yields them, which differs from run to run
RECURSIVE CreateRoster(_, _, _)
CreateRoster(db, names, found) ==
    LET rest(name, player) ==
            IF player.raised THEN {[db |-> db, raised |-> TRUE]}
            ELSE CreateRoster(player.db, names \ {name}, found)
        enter(name, jersey) ==
            IF FormatJerseyRaises(jersey) THEN {[db |-> db, raised |-> TRUE]}
            ELSE rest(name, GetOrCreatePlayer(db, name, FormatJersey(jersey)))
    IN IF names = {} THEN {[db |-> db, raised |-> FALSE]}
       ELSE UNION {enter(name, JerseyOf(name, found)) : name \in names}

\* a variant that also books a pitching line of the season totals on every
\* game created
RECURSIVE ImportGames_WithTotals(_, _, _, _)
ImportGames_WithTotals(db, season_id, entries, n) ==
    IF entries = <<>>
    THEN {[db |-> db, raised |-> FALSE, games_imported |-> n]}
    ELSE UNION {
        IF game.raised
        THEN {[db |-> game.db, raised |-> TRUE, games_imported |-> n]}
        ELSE ImportGames_WithTotals(
                 [game.db EXCEPT !.pitching_stats =
                      @ \cup {[game_id |-> game.id, player_id |-> 1,
                               line |-> [season_totals |-> TRUE]]}],
                 season_id, Tail(entries), n + 1)
        : game \in CreateGame(db, season_id, Head(entries).game_date,
                               Head(entries).opponent,
                               WinLossOfCell(Head(entries).w_l),
                               Some(Head(entries).rf), Some(Head(entries).ra),
                               NULL, NULL)}

\* create_game for each game of the scan, in row order; no stat line is
\* written
RECURSIVE ImportGames(_, _, _, _)
ImportGames(db, season_id, entries, n) ==
    IF entries = <<>>
    THEN {[db |-> db, raised |-> FALSE, games_imported |-> n]}
    ELSE UNION {
        IF game.raised
        THEN {[db |-> game.db, raised |-> TRUE, games_imported |-> n]}
        ELSE ImportGames(game.db, season_id, Tail(entries), n + 1)
        : game \in CreateGame(db, season_id, Head(entries).game_date,
                               Head(entries).opponent,
                               WinLossOfCell(Head(entries).w_l),
                               Some(Head(entries).rf), Some(Head(entries).ra),
                               NULL, NULL)}

\* the results dict of a sheet or block
SheetResults ==
    [season_id |-> NULL, games_imported |-> 0, batting_records |-> 0,
     pitching_records |-> 0, errors |-> <<>>]

\* the roster, then the games, of a scan, reported in results; the outcomes
\* as [db, raised, result]
WriteSheet(db, season_id, found, results) ==
    UNION {
        IF roster.raised
        THEN {[db |-> roster.db, raised |-> TRUE, result |-> results]}
        ELSE {[db |-> written.db, raised |-> written.raised,
               result |-> [results EXCEPT
                               !.season_id = Some(season_id),
                               !.games_imported = written.games_imported]]
              : written \in ImportGames(roster.db, season_id, found.games, 0)}
        : roster \in CreateRoster(db, FoundNames(found), found)}

-----------------------------------------------------------------------------
(* importer.py: import_fall_sheet, import_season_block,
   import_multi_season_sheet, import_excel_workbook *)

SeasonRow == 7

\* the season of a single-season sheet: A7 or B7, else the first cell of
\* column 1 in rows 1 to 9 that names a season; None where there is none
FallSheetSeason(ws) ==
    LET scan(rows) ==
            IF rows = {} THEN NULL
            ELSE CellSeason(Cell(ws, CHOOSE r \in rows : \A q \in rows : r <= q,
                                 1))
        named(season) ==
            IF SeasonResolved(season) THEN season
            ELSE scan({r \in 1..HeaderRows :
                          SeasonResolved(CellSeason(Cell(ws, r, 1)))})
    IN named(CellSeason(IF CellTruthy(Cell(ws, SeasonRow, 1))
                        THEN Cell(ws, SeasonRow, 1)
                        ELSE Cell(ws, SeasonRow, 2)))

\* the rows import_fall_sheet scans, and what it finds there
FallSheetFound(ws) ==
    ScanRows(ws, RowsWithin(ws, FirstDataRow, FallScanEnd(ws, FirstDataRow)),
             FallLayout)

\* import_fall_sheet(ws, team_id): the outcomes as [db, raised, result]
ImportFallSheet(db, ws, team_id) ==
    LET write(created, found) ==
            IF created.raised
            THEN {[db |-> db, raised |-> TRUE, result |-> SheetResults]}
            ELSE IF found.raised
            THEN {[db |-> created.db, raised |-> TRUE,
                   result |-> SheetResults]}
            ELSE WriteSheet(created.db, created.id, found, SheetResults)
        sheet(season) ==
            IF season = NULL
            THEN {[db |-> db, raised |-> FALSE,
                   result |-> [SheetResults EXCEPT
                                   !.errors = <<"Could not determine season">>]]}
            ELSE write(GetOrCreateSeason(db, season.year, season.season_type,
                                         team_id),
                       FallSheetFound(ws))
    IN sheet(FallSheetSeason(ws))

DataOffset == 3

\* what import_season_block finds in the rows of its block
BlockFound(ws, start_row, end_row) ==
    ScanRows(ws, RowsWithin(ws, start_row + DataOffset, end_row), BlockLayout)

\* the results dict of import_season_block: that of a sheet and the season
BlockResults(season) ==
    [season |-> <<season.season_type, season.year>>, season_id |-> NULL,
     games_imported |-> 0, batting_records |-> 0, pitching_records |-> 0,
     errors |-> <<>>]

\* import_season_block(ws, start_row, end_row, season_type, year, team_id)
ImportSeasonBlock(db, ws, start_row, end_row, season, team_id) ==
    LET write(created, found, results) ==
            IF created.raised
            THEN {[db |-> db, raised |-> TRUE, result |-> results]}
            ELSE IF found.raised
            THEN {[db |-> created.db, raised |-> TRUE, result |-> results]}
            ELSE WriteSheet(created.db, created.id, found, results)
    IN write(GetOrCreateSeason(db, season.year, season.season_type, team_id),
             BlockFound(ws, start_row, end_row), BlockResults(season))

MarkerRows == 99

\* the rows 1 to 99 whose cell of column 1 names a season
SeasonMarkers(ws) ==
    {r \in 1..MarkerRows : SeasonResolved(CellSeason(Cell(ws, r, 1)))}

\* the seasons a sheet mentions
SeasonsFound(ws) == {CellSeason(Cell(ws, r, 1)) : r \in SeasonMarkers(ws)}

\* the rows of the first mention of each season, ascending
SeasonRows(ws) ==
    LET first(markers, season) ==
            Ascending({r \in markers :
                          \A q \in markers : season[q] = season[r] => r <= q})
    IN first(SeasonMarkers(ws),
             [r \in 1..MarkerRows |-> CellSeason(Cell(ws, r, 1))])

LastBlockEnd == 500

\* every block runs to the last row: the blocks overlap
BlockEnd_ToCeiling(season_rows, i) == LastBlockEnd

\* the last row of block i: the row before the next marker, 500 for the
\* last block
BlockEnd(season_rows, i) ==
    IF i + 1 <= Len(season_rows) THEN season_rows[i + 1] - 1
    ELSE LastBlockEnd

\* the blocks i, i + 1, ... of import_multi_season_sheet, after results
RECURSIVE ImportBlocks(_, _, _, _, _, _)
ImportBlocks(db, ws, season_rows, i, team_id, results) ==
    IF i > Len(season_rows)
    THEN {[db |-> db, raised |-> FALSE, results |-> results]}
    ELSE UNION {
        IF block.raised
        THEN {[db |-> block.db, raised |-> TRUE, results |-> results]}
        ELSE ImportBlocks(block.db, ws, season_rows, i + 1, team_id,
                          Append(results, block.result))
        : block \in ImportSeasonBlock(
                        db, ws, season_rows[i], BlockEnd(season_rows, i),
                        CellSeason(Cell(ws, season_rows[i], 1)), team_id)}

\* import_multi_season_sheet(ws, team_id): the results of its blocks
ImportMultiSeasonSheet(db, ws, team_id) ==
    ImportBlocks(db, ws, SeasonRows(ws), 1, team_id, <<>>)

\* a test on the rows that mention a season, not on the seasons mentioned
IsMultiSeason_ByMarkers(ws) == Cardinality(SeasonMarkers(ws)) > 1

\* a sheet is imported in the multi-season layout
IsMultiSeason(ws) == Cardinality(SeasonsFound(ws)) > 1

\* all_results of import_excel_workbook before the sheets
ExcelResults(team_info, team_id) ==
    [file_type |-> "excel", sheets_processed |-> 0, total_games |-> 0,
     total_batting |-> 0, total_pitching |-> 0, team_info |-> team_info,
     team_id |-> team_id, details |-> <<>>, errors |-> <<>>]

\* all_results after the results of one sheet
RECURSIVE AddDetails(_, _)
AddDetails(all_results, results) ==
    IF results = <<>> THEN all_results
    ELSE AddDetails(
             [all_results EXCEPT
                  !.details = Append(@, Head(results)),
                  !.total_games = @ + Head(results).games_imported,
                  !.total_batting = @ + Head(results).batting_records,
                  !.total_pitching = @ + Head(results).pitching_records],
             Tail(results))

\* the team of a sheet: that of the workbook, unless the sheet names another
SheetTeam(db, ws, team_info, team_id) ==
    LET team(sheet_info) ==
            IF /\ Truthy(sheet_info.team_name)
               /\ sheet_info.team_name # team_info.team_name
            THEN GetOrCreateTeamFromInfo(db, sheet_info)
            ELSE [db |-> db, team_id |-> team_id, raised |-> FALSE]
    IN team(ExtractTeamInfo(ws))

\* the outcomes of one sheet as [db, raised, results]
ImportSheet(db, ws, team_id) ==
    IF IsMultiSeason(ws)
    THEN ImportMultiSeasonSheet(db, ws, team_id)
    ELSE {[db |-> one.db, raised |-> one.raised, results |-> <<one.result>>]
          : one \in ImportFallSheet(db, ws, team_id)}

\* the loop of import_excel_workbook over the sheets i, i + 1, ...
RECURSIVE ImportSheets(_, _, _, _, _, _)
ImportSheets(db, sheets, i, team_info, team_id, all_results) ==
    LET sheet_of(team) ==
            IF team.raised THEN {Aborted(team.db)}
            ELSE UNION {
                IF sheet.raised THEN {Aborted(sheet.db)}
                ELSE ImportSheets(
                         sheet.db, sheets, i + 1, team_info, team_id,
                         [AddDetails(all_results, sheet.results) EXCEPT
                              !.sheets_processed = @ + 1])
                : sheet \in ImportSheet(team.db, sheets[i], team.team_id)}
    IN IF i > Len(sheets) THEN {Reported(db, all_results)}
       ELSE sheet_of(SheetTeam(db, sheets[i], team_info, team_id))

\* import_excel_workbook(file_path); load_workbook raises on a file that is
\* not a workbook
ImportExcelWorkbook(db, file) ==
    LET sheets(team_info, team) ==
            IF team.raised THEN {Aborted(team.db)}
            ELSE ImportSheets(team.db, file.sheets, 1, team_info, team.team_id,
                              ExcelResults(team_info, team.team_id))
        workbook(team_info) ==
            sheets(team_info, GetOrCreateTeamFromInfo(db, team_info))
    IN IF ~file.readable THEN {Aborted(db)}
       ELSE workbook(ExtractTeamInfo(file.sheets[1]))

-----------------------------------------------------------------------------
(* importer.py: import_file *)

\* import_file(file_path, season_id, game_date, game_time, opponent,
\* win_loss, runs_for, runs_against)
ImportFile(db, file, season_id, game_date, game_time, opponent, win_loss, runs_for, runs_against) ==
    LET file_type == DetectFileType(file)
    IN IF file_type = "excel" THEN ImportExcelWorkbook(db, file)
       ELSE IF file_type = "unknown"
       THEN {Reported(db, [file_type |-> "unknown",
                           errors |-> <<"Unsupported file type">>])}
       ELSE IF season_id = NULL \/ Val(season_id) = 0
       THEN {Reported(db, [file_type |-> file_type,
                           errors |-> <<"Season ID required">>])}
       ELSE {IF result.raised THEN result
             ELSE [result EXCEPT !.report.file_type = file_type]
             : result \in ImportGamechangerCsv(
                              db, file, Val(season_id), game_date, game_time,
                              opponent, win_loss, runs_for, runs_against)}

-----------------------------------------------------------------------------
(* importer.py: import_multiple_files *)

\* all_results at the start of import_multiple_files
BatchResults ==
    [files_processed |-> 0, excel_files |-> 0, csv_files |-> 0,
     total_games |-> 0, total_batting |-> 0, total_pitching |-> 0,
     total_stats |-> 0, errors |-> <<>>, details |-> <<>>]

\* result.get(key, 0) of a report
ReportGet(result, key) == IF key \in DOMAIN result THEN result[key] ELSE 0

\* the body of the loop after import_file has returned result
AddFileResult(all_results, result) ==
    LET is_excel == result.file_type = "excel"
        is_csv == result.file_type \in {"gamechanger_csv", "csv"}
    IN [all_results EXCEPT
            !.details = Append(@, result),
            !.files_processed = @ + 1,
            !.errors = @ \o result.errors,
            !.excel_files = IF is_excel THEN @ + 1 ELSE @,
            !.csv_files = IF is_csv THEN @ + 1 ELSE @,
            !.total_games =
                IF is_excel THEN @ + ReportGet(result, "total_games")
                ELSE IF /\ is_csv
                        /\ "game_id" \in DOMAIN result
                        /\ result.game_id # NULL
                THEN @ + 1
                ELSE @,
            !.total_batting =
                IF is_excel THEN @ + ReportGet(result, "total_batting") ELSE @,
            !.total_pitching =
                IF is_excel THEN @ + ReportGet(result, "total_pitching") ELSE @,
            !.total_stats =
                IF is_csv THEN @ + ReportGet(result, "stats_imported") ELSE @]

Txt_True == <<"T", "r", "u", "e">>

\* import_file(file_path, season_id, verbose): the third positional
\* parameter of import_file is game_date, so the flag is the date override.
\* False is as false as None; True is a true value, written as its str
VerboseAsGameDate(verbose) == IF verbose THEN Some(Txt_True) ELSE NULL

\* the loop of import_multiple_files over the files left; an exception of
\* import_file is caught nowhere and ends the loop
RECURSIVE ImportFiles(_, _, _, _, _)
ImportFiles(db, file_paths, season_id, verbose, all_results) ==
    IF file_paths = <<>> THEN {Reported(db, all_results)}
    ELSE UNION {
        IF result.raised THEN {Aborted(result.db)}
        ELSE ImportFiles(result.db, Tail(file_paths), season_id, verbose,
                         AddFileResult(all_results, result.report))
        : result \in ImportFile(db, Head(file_paths), season_id,
                                VerboseAsGameDate(verbose), NULL, NULL, NULL,
                                NULL, NULL)}

\* import_multiple_files(file_paths, season_id, verbose)
ImportMultipleFiles(db, file_paths, season_id, verbose) ==
    ImportFiles(db, file_paths, season_id, verbose, BatchResults)

-----------------------------------------------------------------------------
(* import_csv.py: the stand-alone CSV importer *)

Txt_Unknown == <<"U", "n", "k", "n", "o", "w", "n">>

\* the results dict at the start of import_gamechanger_csv of import_csv.py
LegacyResults ==
    [game_id |-> NULL, stats_imported |-> 0, errors |-> <<>>,
     file_type |-> "legacy_csv"]

\* the fuzzy match on the opponent: one name holds the other, once lowered
\* and without blanks
SimilarOpponent(existing, new) ==
    LET existing_opp == RemoveSpaces(Lower(existing))
        new_opp == RemoveSpaces(Lower(new))
    IN Contains(existing_opp, new_opp) \/ Contains(new_opp, existing_opp)

\* the games of the season that the loop over get_games_by_season can stop
\* at: the same date and a similar opponent
LegacyMatches(db, season_id, game_date, opponent) ==
    {id \in GetGamesBySeason(db, season_id) :
        /\ db.games[id].game_date = game_date
        /\ SimilarOpponent(db.games[id].opponent_name, opponent)}

\* the game the stats go to: a matching game of the season, else a game
\* created with the runs of the rows
LegacyGame(db, season_id, game_date, opponent, total_runs, notes) ==
    UNION {
        IF matches # {}
        THEN {Returned(db, id, TRUE) : id \in matches}
        ELSE CreateGame(db, season_id, game_date, opponent, NULL,
                        Some(total_runs), NULL, NULL, notes)
        : matches \in {LegacyMatches(db, season_id, game_date, opponent)}}

\* import_gamechanger_csv of import_csv.py up to its first call on the
\* database: the report of an early return, a raise, or the game and the
\* stat rows it goes on to write
LegacyPlan(file, game_date, opponent) ==
    LET returns(report) == [step |-> "return", report |-> report]
        raises == [step |-> "raise"]
        game(rows, format_type, reverse_map, file_info) ==
            IF DictHas(reverse_map, "r")
               /\ \E i \in DOMAIN rows :
                      StatRaises(file.headers, rows[i],
                                 DictGet(reverse_map, "r"))
            THEN raises
            ELSE [step |-> "game",
                  results |-> LegacyResults,
                  game_date |-> IF Truthy(game_date) THEN Val(game_date)
                                ELSE IF Truthy(file_info.game_date)
                                THEN Val(file_info.game_date)
                                ELSE Txt_Unknown,
                  opponent |-> IF Truthy(opponent) THEN Val(opponent)
                               ELSE IF Truthy(file_info.opponent)
                               THEN Val(file_info.opponent)
                               ELSE file.stem,
                  total_runs |-> IF DictHas(reverse_map, "r")
                                 THEN SumRuns(file.headers, rows,
                                              DictGet(reverse_map, "r"))
                                 ELSE 0,
                  notes |-> Some(CsvNotes(file, format_type)),
                  entries |-> StatEntries(file.headers, rows, reverse_map)]
        read(rows) ==
            IF HasRestKey(file, rows[1])
            THEN raises           \* None.lower(): AttributeError
            ELSE Only({
                IF \/ detected.format_type = "unknown"
                   \/ detected.col_map = <<>>
                THEN returns([LegacyResults EXCEPT
                                  !.errors = <<"Could not detect CSV format">>])
                ELSE Only({
                    game(rows, detected.format_type, reverse_map, file_info)
                    : reverse_map \in {ReverseMap(detected.col_map)},
                      file_info \in {ParseFilenameForGameInfo(file.stem)}})
                : detected \in {Only({LegacyDetectCsvFormat(headers)
                                  : headers \in {Keys(file.headers)}})}})
    IN IF ~file.readable
       THEN returns([LegacyResults EXCEPT
                         !.errors = <<"Failed to read CSV">>])
       ELSE Only({
           IF rows = <<>>
           THEN returns([LegacyResults EXCEPT
                             !.errors = <<"CSV file is empty">>])
           ELSE read(rows)
           : rows \in {DictRows(file)}})

\* import_gamechanger_csv(file_path, season_id, game_date, opponent) of
\* import_csv.py
LegacyImportGamechangerCsv(db, file, season_id, game_date, opponent) ==
    UNION {
        IF plan.step = "return" THEN {Reported(db, plan.report)}
        ELSE IF plan.step = "raise" THEN {Aborted(db)}
        ELSE {ImportCsvStats(game, plan.entries, plan.results)
              : game \in LegacyGame(db, season_id, plan.game_date,
                                    plan.opponent, plan.total_runs,
                                    plan.notes)}
        : plan \in {LegacyPlan(file, game_date, opponent)}}

-----------------------------------------------------------------------------
(* Steps: one call, committed or rolled back, and what it answered *)

Outcome(res) == IF res.raised THEN "raised" ELSE "returned"

\* the tables after a call, and the call's answer
Commit(res, op) ==
    /\ age_groups' = res.db.age_groups
    /\ our_teams' = res.db.our_teams
    /\ seasons' = res.db.seasons
    /\ teams' = res.db.teams
    /\ players' = res.db.players
    /\ games' = res.db.games
    /\ batting_stats' = res.db.batting_stats
    /\ pitching_stats' = res.db.pitching_stats
    /\ last' = [op |-> op, outcome |-> Outcome(res), id |-> res.id,
                hit |-> res.hit, args |-> <<>>, report |-> NoReport,
                again |-> FALSE]
    /\ calls' = calls

\* the processes that import into one store
Procs == {1, 2}

\* no call in flight
NoCall == [op |-> "none"]

\* init_database on a fresh file: every table empty
Init ==
    /\ age_groups = <<>>
    /\ our_teams = <<>>
    /\ seasons = <<>>
    /\ teams = <<>>
    /\ players = <<>>
    /\ games = <<>>
    /\ batting_stats = {}
    /\ pitching_stats = {}
    /\ last = [op |-> "init_database", outcome |-> "returned", id |-> 0,
               hit |-> FALSE, args |-> <<>>, report |-> NoReport,
               again |-> FALSE]
    /\ calls = [serialized |-> TRUE, of |-> [p \in Procs |-> NoCall]]

-----------------------------------------------------------------------------
(* Direct calls of the database functions *)

DbGetOrCreateAgeGroup(name, sort_order) ==
    Commit(GetOrCreateAgeGroup(Db, name, sort_order), "get_or_create_age_group")

DbGetOrCreateOurTeam(name, age_group_id, location) ==
    Commit(GetOrCreateOurTeam(Db, name, age_group_id, location),
           "get_or_create_our_team")

DbGetOrCreateSeason(year, season_type, team_id) ==
    Commit(GetOrCreateSeason(Db, year, season_type, team_id),
           "get_or_create_season")

DbGetOrCreateTeam(name, location) ==
    Commit(GetOrCreateTeam(Db, name, location), "get_or_create_team")

DbGetOrCreatePlayer(name, jersey_number) ==
    Commit(GetOrCreatePlayer(Db, name, jersey_number), "get_or_create_player")

DbCreateGame(season_id, game_date, opponent_name, win_loss, runs_for, runs_against, opponent_team_id, notes) ==
    \E res \in CreateGame(Db, season_id, game_date, opponent_name, win_loss,
                            runs_for, runs_against, opponent_team_id, notes) :
        Commit(res, "create_game")

CallAgeGroup ==
    \E name \in {Txt_12U}, so \in {12} : DbGetOrCreateAgeGroup(name, so)

CallOurTeam ==
    \E name \in {Txt_Storm}, ag \in {1}, loc \in Locations :
        DbGetOrCreateOurTeam(name, ag, loc)

CallSeason ==
    \E y \in Years, st \in {"Fall"} : DbGetOrCreateSeason(y, st, NULL)

CallTeam ==
    \E name \in {Txt_Hawks} : DbGetOrCreateTeam(name, NULL)

CallPlayer ==
    \E name \in PlayerNames, j \in Jerseys : DbGetOrCreatePlayer(name, j)

CallGame ==
    \E s \in SeasonIdArgs, wl \in WinLossArgs, rf \in RunsForArgs,
       ra \in RunsAgainstArgs, t \in TeamIdArgs, n \in NotesArgs :
        DbCreateGame(s, Txt_Sep6, Txt_Vipers, wl, rf, ra, t, n)

\* the game table under direct calls of create_game
NextGames == CallSeason \/ CallTeam \/ CallGame

SpecGames == Init /\ [][NextGames]_vars

\* the roster tables under direct calls of the get-or-create functions
NextRoster == CallAgeGroup \/ CallOurTeam \/ CallPlayer

SpecRoster == Init /\ [][NextRoster]_vars

-----------------------------------------------------------------------------
(* Imports *)

\* the arguments of an import call
ImportArgs(file, season_id, game_date, opponent) ==
    [file |-> file, season_id |-> season_id, game_date |-> game_date,
     game_time |-> NULL, opponent |-> opponent, win_loss |-> NULL,
     runs_for |-> NULL, runs_against |-> NULL]

\* the tables after an import, and its report; again tells that the call
\* before it was the same call
CommitImport(res, op, args) ==
    /\ age_groups' = res.db.age_groups
    /\ our_teams' = res.db.our_teams
    /\ seasons' = res.db.seasons
    /\ teams' = res.db.teams
    /\ players' = res.db.players
    /\ games' = res.db.games
    /\ batting_stats' = res.db.batting_stats
    /\ pitching_stats' = res.db.pitching_stats
    /\ last' = [op |-> op, outcome |-> Outcome(res), id |-> 0, hit |-> FALSE,
                args |-> args, report |-> res.report,
                again |-> last.op = op /\ last.args = args]
    /\ calls' = calls

\* import_file(path, season_id, game_date=game_date, opponent=opponent)
DoImportFile(file, season_id, game_date, opponent) ==
    \E res \in ImportFile(Db, file, season_id, game_date, NULL, opponent,
                          NULL, NULL, NULL) :
        CommitImport(res, "import_file",
                     ImportArgs(file, season_id, game_date, opponent))

\* the import of a CSV file, as the import dialog issues it
ImportCsvFile ==
    \E file \in CsvFiles, season_id \in SeasonIdOverrides,
       game_date \in DateOverrides :
        DoImportFile(file, season_id, game_date, NULL)

\* the import of a workbook: import_file(path)
ImportWorkbook ==
    \E file \in Workbooks : DoImportFile(file, NULL, NULL, NULL)

\* import_csv.import_gamechanger_csv(path, season_id)
LegacyImportCsv ==
    \E file \in LegacyCsvFiles, season_id \in {1} :
        \E res \in LegacyImportGamechangerCsv(Db, file, season_id, NULL,
                                              NULL) :
            CommitImport(res, "legacy_import_csv",
                         ImportArgs(file, Some(season_id), NULL, NULL))

\* the store under imports of CSV files, by importer.py and by import_csv.py
NextCsv == CallSeason \/ ImportCsvFile \/ LegacyImportCsv

SpecCsv == Init /\ [][NextCsv]_vars

\* the store under imports of workbooks, beside the stat lines of CSV files
NextExcel == CallSeason \/ ImportWorkbook \/ LegacyImportCsv

SpecExcel == Init /\ [][NextExcel]_vars

\* the batches the dialog hands to import_multiple_files
Batches ==
    {<<xl_corrupt, xl_fall>>, <<xl_bad, xl_fall>>, <<csv_plain, xl_fall>>,
     <<csv_game, xl_fall>>, <<txt_notes, csv_plain>>}

\* import_multiple_files(file_paths, season_id, verbose)
ImportBatch ==
    \E file_paths \in Batches, season_id \in SeasonIdOverrides,
       verbose \in BOOLEAN :
        \E res \in ImportMultipleFiles(Db, file_paths, season_id, verbose) :
            CommitImport(res, "import_multiple_files",
                         [file_paths |-> file_paths, season_id |-> season_id,
                          verbose |-> verbose])

\* the store under batches of files
NextBatch == CallSeason \/ ImportBatch

SpecBatch == Init /\ [][NextBatch]_vars

-----------------------------------------------------------------------------
(* Header rows *)

\* the most headers of a header row
MaxHeaders == 3

Txt_AgCell2 == GAMECHANGER_COLUMN_MAP[3][1]

Txt_Player == <<"P", "l", "a", "y", "e", "r">>

Txt_NAME_padded == <<" ", "N", "A", "M", "E", " ">>

Txt_Foo == <<"F", "o", "o">>

\* the headers the header rows are made of
HeaderPool ==
    {Txt_GcPlayerName, Txt_AgCell, Txt_AgCell2, Txt_Player, Txt_NAME_padded,
     Txt_Foo}

\* list(rows[0].keys()): the keys of a dict, no header twice
HeaderLists ==
    {headers \in UNION {[1..n -> HeaderPool] : n \in 0..MaxHeaders} :
        \A i, j \in DOMAIN headers : headers[i] = headers[j] => i = j}

\* format_type, col_map = detect_csv_format(headers)
\* reverse_map = {v: k for k, v in col_map.items()}
DetectColumns ==
    \E headers \in HeaderLists :
        /\ last.op = "init_database"
        /\ last' = [op |-> "detect_csv_format", outcome |-> "returned",
                    id |-> 0, hit |-> FALSE, args |-> [headers |-> headers],
                    report |-> [detected |-> DetectCsvFormat(headers),
                                reverse_map |->
                                    ReverseMap(DetectCsvFormat(headers).col_map)],
                    again |-> FALSE]
        /\ UNCHANGED <<tables, calls>>

NextDetect == DetectColumns

SpecDetect == Init /\ [][NextDetect]_vars

-----------------------------------------------------------------------------
(* The dialect of a header row *)

\* a CSV file whose first line is the header row
HeaderFile(headers) ==
    [stem |-> <<"s", "t", "a", "t", "s">>, suffix |-> <<".", "c", "s", "v">>,
     readable |-> TRUE, headers |-> headers, lines |-> <<>>]

\* detect_file_type(file_path) of import_file, and detect_csv_format on the
\* headers of the same file in import_gamechanger_csv
DetectDialect ==
    \E headers \in HeaderLists :
        /\ last.op = "init_database"
        /\ last' = [op |-> "detect_file_type", outcome |-> "returned",
                    id |-> 0, hit |-> FALSE,
                    args |-> [file |-> HeaderFile(headers)],
                    report |-> [file_type |->
                                    DetectFileType(HeaderFile(headers)),
                                detected |-> DetectCsvFormat(headers)],
                    again |-> FALSE]
        /\ UNCHANGED <<tables, calls>>

NextDialect == DetectDialect

SpecDialect == Init /\ [][NextDialect]_vars

-----------------------------------------------------------------------------
(* File names *)

\* the parts the file names are made of: a word, a number, the letters of a
\* month, a day and an opponent
NameWords == {Txt_game, <<"G", "a", "m", "e">>, <<"g", "m", "e">>}

NameNumbers == {<<"1">>, <<"1", "2">>, <<>>}

NameMonths ==
    {<<"s", "e", "p">>, <<"S", "e", "p", "t">>, <<"x", "y", "z">>, <<"s">>}

NameDays == {<<"6">>, <<"1", "2">>, <<"1", "2", "3">>, <<>>}

NameOpponents == {<<"v", "i", "p">>, <<"n", "j", "_", "v", "i", "p">>, <<>>}

NameParts ==
    [word : NameWords, number : NameNumbers, month : NameMonths,
     day : NameDays, opponent : NameOpponents]

\* Path(filename).stem of a name made of these parts
StemOf(parts) ==
    parts.word \o parts.number \o <<"_">> \o parts.month \o parts.day
    \o <<"_">> \o parts.opponent

\* parse_filename_for_game_info(filename)
ParseFilename ==
    \E parts \in NameParts :
        /\ last.op = "init_database"
        /\ last' = [op |-> "parse_filename_for_game_info",
                    outcome |-> "returned", id |-> 0, hit |-> FALSE,
                    args |-> [parts |-> parts, stem |-> StemOf(parts)],
                    report |-> ParseFilenameForGameInfo(StemOf(parts)),
                    again |-> FALSE]
        /\ UNCHANGED <<tables, calls>>

NextFilename == ParseFilename

SpecFilename == Init /\ [][NextFilename]_vars

-----------------------------------------------------------------------------
(* Sheets by the seasons of their column 1 *)

\* what a cell of column 1 may say of a season: nothing, a season, the same
\* season in other words, another season, a season without a year
MarkerTexts ==
    {<<>>,
     <<"F", "a", "l", "l", " ", "2", "0", "2", "4">>,
     <<"f", "a", "l", "l", " ", "2", "0", "2", "4", " ", "a", "g", "a", "i", "n">>,
     <<"S", "P", "R", "I", "N", "G", " ", "2", "0", "2", "5">>,
     <<"F", "a", "l", "l">>}

\* the cell of column 1 of a row with a text, no cell for no text
MarkerCell(row, text) ==
    IF text = <<>> THEN <<>> ELSE <<row, 1>> :> TextCell(text)

\* a sheet with the texts in A1, A6 and A12, a game and a batter under each
LayoutSheet(a1, a6, a12) ==
    MarkerCell(1, a1) @@ MarkerCell(6, a6) @@ MarkerCell(12, a12)
    @@ <<4, 1>> :> TextCell(<<"9", "/", "6", " ", "v", "s", ".", " ", "H", "k">>)
    @@ <<4, 2>> :> TextCell(<<"W">>)
    @@ <<4, 3>> :> NumCell(5)
    @@ <<4, 4>> :> NumCell(2)
    @@ <<4, 24>> :> TextCell(Txt_Ann)
    @@ <<10, 1>> :> TextCell(<<"9", "/", "7", " ", "v", "s", ".", " ", "H", "k">>)
    @@ <<10, 2>> :> TextCell(<<"L">>)
    @@ <<10, 3>> :> NumCell(1)
    @@ <<10, 4>> :> NumCell(4)
    @@ <<10, 24>> :> TextCell(Txt_Bo)
    @@ <<15, 1>> :> TextCell(<<"9", "/", "8", " ", "v", "s", ".", " ", "H", "k">>)
    @@ <<15, 2>> :> TextCell(<<"T">>)
    @@ <<15, 3>> :> NumCell(3)
    @@ <<15, 4>> :> NumCell(3)

LayoutSheets ==
    {LayoutSheet(a1, a6, a12) : a1 \in MarkerTexts, a6 \in MarkerTexts,
                                a12 \in MarkerTexts}

\* layout.xlsx with one sheet
LayoutWorkbook(ws) ==
    [stem |-> <<"l", "a", "y", "o", "u", "t">>,
     suffix |-> <<".", "x", "l", "s", "x">>, readable |-> TRUE,
     sheets |-> <<ws>>]

\* import_file(path) of such a workbook into a fresh store
ImportLayoutSheet ==
    \E ws \in LayoutSheets :
        /\ last.op = "init_database"
        /\ DoImportFile(LayoutWorkbook(ws), NULL, NULL, NULL)

NextLayout == ImportLayoutSheet

SpecLayout == Init /\ [][NextLayout]_vars

-----------------------------------------------------------------------------
(* Sheets with season blocks *)

\* what a cell of column 1 may say of a season in such a sheet
BlockTexts ==
    {<<>>,
     <<"F", "a", "l", "l", " ", "2", "0", "2", "4">>,
     <<"S", "p", "r", "i", "n", "g", " ", "2", "0", "2", "5">>,
     <<"F", "a", "l", "l", " ", "2", "0", "2", "5">>}

\* a game entry in column 1 of a row
GameCell(row, game_date) ==
    <<row, 1>> :> TextCell(game_date \o <<" ", "v", "s", ".", " ", "H", "k">>)

\* a sheet with the texts in A1, A6, A12 and A100 and game entries between
\* them, each of its own date
BlockSheet(a1, a6, a12, a100) ==
    MarkerCell(1, a1) @@ MarkerCell(6, a6) @@ MarkerCell(12, a12)
    @@ MarkerCell(100, a100)
    @@ GameCell(3, <<"9", "/", "3">>) @@ GameCell(4, <<"9", "/", "4">>)
    @@ GameCell(8, <<"9", "/", "8">>) @@ GameCell(9, <<"9", "/", "9">>)
    @@ GameCell(14, <<"9", "/", "1", "4">>) @@ GameCell(15, <<"9", "/", "1", "5">>)
    @@ GameCell(102, <<"1", "0", "/", "2">>) @@ GameCell(103, <<"1", "0", "/", "3">>)

\* import_file(path) of a workbook with one such sheet into a fresh store
ImportBlockSheet ==
    \E a1 \in BlockTexts, a6 \in BlockTexts, a12 \in BlockTexts,
       a100 \in BlockTexts :
        /\ last.op = "init_database"
        /\ DoImportFile(LayoutWorkbook(BlockSheet(a1, a6, a12, a100)),
                        NULL, NULL, NULL)

NextBlocks == ImportBlockSheet

SpecBlocks == Init /\ [][NextBlocks]_vars

-----------------------------------------------------------------------------

(* Single-season sheets with gaps *)

\* what a row may hold in the three columns the scan looks at
RowContents == {"empty", "game", "pitcher", "annotation", "batter"}

\* the cells of a row of that content; the game entry has the date given
RowCells(row, content, game_date) ==
    IF content = "game" THEN GameCell(row, game_date)
    ELSE IF content = "pitcher"
    THEN <<row, FallLayout.pitcher_name>> :> TextCell(Txt_Ann)
    ELSE IF content = "annotation"
    THEN <<row, FallLayout.pitcher_name>> :> TextCell(<<"(", "R", ")">>)
    ELSE IF content = "batter"
    THEN <<row, FallLayout.batter_name>> :> TextCell(Txt_Bo)
    ELSE <<>>

\* the rows at which the game after the gap may be
GapEnds == {14, 15, 16, 17}

\* the distance of the batter rows of a long sheet
FillerStep == 4

\* a batter on every fourth row from row first on, below the last rows
FillerCells(first) ==
    [p \in {<<r, FallLayout.batter_name>>
            : r \in {q \in first..(ScanCeiling - FillerStep) :
                        (q - first) % FillerStep = 0}}
        |-> TextCell(Txt_Ann)]

\* a single-season sheet: the season in A7, a game in row 9, rows 10 and 11
\* of the contents given, nothing down to a game in row gap_end; a long
\* sheet goes on with batters down to games in rows 499, 500 and 501
ScanSheet(row10, row11, gap_end, long) ==
    MarkerCell(SeasonRow, <<"F", "a", "l", "l", " ", "2", "0", "2", "4">>)
    @@ GameCell(FirstDataRow, <<"9", "/", "9">>)
    @@ RowCells(10, row10, <<"9", "/", "1", "0">>)
    @@ RowCells(11, row11, <<"9", "/", "1", "1">>)
    @@ GameCell(gap_end, <<"1", "0", "/", "1">>)
    @@ (IF long
        THEN FillerCells(gap_end + FillerStep)
             @@ GameCell(ScanCeiling - 1, <<"1", "1", "/", "1">>)
             @@ GameCell(ScanCeiling, <<"1", "1", "/", "2">>)
             @@ GameCell(ScanCeiling + 1, <<"1", "1", "/", "3">>)
        ELSE <<>>)

\* import_file(path) of a workbook with one such sheet into a fresh store
ImportScanSheet ==
    \E row10 \in RowContents, row11 \in RowContents, gap_end \in GapEnds,
       long \in BOOLEAN :
        /\ last.op = "init_database"
        /\ DoImportFile(LayoutWorkbook(ScanSheet(row10, row11, gap_end, long)),
                        NULL, NULL, NULL)

NextScan == ImportScanSheet

SpecScan == Init /\ [][NextScan]_vars

-----------------------------------------------------------------------------

(* A game of a workbook and of a CSV file *)

\* a single-season sheet with the game of game1_sep6_nj_vip.csv and its score
ws_merge ==
    <<SeasonRow, 1>> :> TextCell(<<"F", "A", "L", "L", " ", "2", "0", "2", "5">>)
    @@ <<10, 1>> :> TextCell(<<"9", "/", "6", " ", "v", "s", ".", " ", "N", "j", " ", "V", "i", "p">>)
    @@ <<10, 2>> :> TextCell(<<"W">>)
    @@ <<10, 3>> :> NumCell(7)
    @@ <<10, 4>> :> NumCell(2)

\* merge.xlsx
xl_merge ==
    [stem |-> <<"m", "e", "r", "g", "e">>, suffix |-> <<".", "x", "l", "s", "x">>,
     readable |-> TRUE, sheets |-> <<ws_merge>>]

\* import_file(path) of the workbook
ImportMergeWorkbook == DoImportFile(xl_merge, NULL, NULL, NULL)

\* the store under imports of the workbook and of CSV files
NextMerge == CallSeason \/ ImportMergeWorkbook \/ ImportCsvFile

SpecMerge == Init /\ [][NextMerge]_vars

-----------------------------------------------------------------------------

(* Sheets with one roster row *)

\* the name cells of the roster rows: no cell, header words, blanks, names
\* with and without a handedness annotation, an annotation alone
RosterNameCells ==
    {NULL,
     TextCell(<<"P", "l", "a", "y", "e", "r">>),
     TextCell(<<"N", "A", "M", "E">>),
     TextCell(<<"p", "l", "a", "y", "e", "r", "s">>),
     TextCell(<<"T", "o", "t", "a", "l", "s">>),
     TextCell(<<"#">>),
     TextCell(<<" ">>),
     TextCell(Txt_Ann),
     TextCell(Txt_AnnR),
     TextCell(<<"B", "o", "(", "L", ")", " ">>),
     TextCell(<<"(", "S", ")">>)}

\* the jersey cells beside them: no cell, numbers, header words
RosterJerseyCells ==
    {NULL, NumCell(7), TextCell(<<"1", "2">>), TextCell(<<"#">>),
     TextCell(<<"N", "o", ".">>), TextCell(<<"j", "e", "r", "s", "e", "y">>)}

\* a cell at a place of a sheet, no cell for None
CellAt(row, column, v) ==
    IF v = NULL THEN <<>> ELSE <<row, column>> :> v

\* a single-season sheet (season in A7, the row in row 10) or a
\* multi-season sheet (seasons in A1 and A6, the row in row 4) with one
\* roster row in the pitcher or the batter columns
RosterSheet(multi, role, name, jersey) ==
    IF multi
    THEN <<1, 1>> :> TextCell(<<"F", "a", "l", "l", " ", "2", "0", "2", "4">>)
         @@ <<6, 1>> :> TextCell(<<"S", "P", "R", "I", "N", "G", " ", "2", "0", "2", "5">>)
         @@ CellAt(4, BlockLayout[role], name)
         @@ CellAt(4, BlockLayout[role] - 1, jersey)
    ELSE <<7, 1>> :> TextCell(<<"F", "A", "L", "L", " ", "2", "0", "2", "5">>)
         @@ CellAt(10, FallLayout[role], name)
         @@ CellAt(10, FallLayout[role] - 1, jersey)

\* roster.xlsx with one sheet
RosterWorkbook(ws) ==
    [stem |-> <<"r", "o", "s", "t", "e", "r">>,
     suffix |-> <<".", "x", "l", "s", "x">>, readable |-> TRUE,
     sheets |-> <<ws>>]

\* import_file(path) of such a workbook into a fresh store; the call is
\* recorded with the cells of its roster row
ImportRosterRow ==
    \E multi \in BOOLEAN, role \in {"pitcher_name", "batter_name"},
       name \in RosterNameCells, jersey \in RosterJerseyCells :
        /\ last.op = "init_database"
        /\ \E res \in ImportFile(
                          Db, RosterWorkbook(RosterSheet(multi, role, name, jersey)),
                          NULL, NULL, NULL, NULL, NULL, NULL, NULL) :
               CommitImport(
                   res, "import_file",
                   [file |-> RosterWorkbook(RosterSheet(multi, role, name, jersey)),
                    multi |-> multi, role |-> role, name |-> name,
                    jersey |-> jersey])

NextRosterRows == ImportRosterRow

SpecRosterRows == Init /\ [][NextRosterRows]_vars

-----------------------------------------------------------------------------
(* Stat cells *)

\* what a stat cell holds between its blanks and after its sign
CellBodies ==
    {<<>>, <<"3">>, <<"3", ".", "7">>, <<".", "5">>, <<"a", "b", "c">>,
     <<"3", "x">>, <<"i", "n", "f">>,
     <<"I", "n", "f", "i", "n", "i", "t", "y">>, <<"n", "a", "n">>,
     <<"1", "e", "2">>, <<"1", "e", "4", "0", "0">>,
     <<"1", "e", "-", "4", "0", "0">>}

CellSigns == {<<>>, <<"-">>, <<"+">>}

CellBlanks == {<<>>, <<SP>>}

CellEnds == {<<>>, <<SP>>, <<"%">>}

\* the cells of a CSV file: None for a line too short, else a str
StatCells ==
    {NULL} \cup {Some(blank \o sign \o body \o end) :
                    blank \in CellBlanks, sign \in CellSigns,
                    body \in CellBodies, end \in CellEnds}

\* safe_int(val)
CallSafeInt ==
    \E val \in StatCells :
        /\ last.op = "init_database"
        /\ last' = [op |-> "safe_int",
                    outcome |-> IF SafeIntRaises(val) THEN "raised"
                                ELSE "returned",
                    id |-> IF SafeIntRaises(val) THEN 0 ELSE SafeInt(val),
                    hit |-> FALSE, args |-> [val |-> val],
                    report |-> NoReport, again |-> FALSE]
        /\ UNCHANGED <<tables, calls>>

NextSafeInt == CallSafeInt

SpecSafeInt == Init /\ [][NextSafeInt]_vars

-----------------------------------------------------------------------------
(* database.py: the rates of BattingStats and PitchingStats *)

\* a / b of Python: the quotient as the fraction num / den, ZeroDivisionError
\* for b = 0
TrueDiv(a, b) ==
    IF b = 0 THEN [kind |-> "ZeroDivisionError", num |-> 0, den |-> 1]
    ELSE [kind |-> "float", num |-> a, den |-> b]

\* the float 0.0
ZeroFloat == [kind |-> "float", num |-> 0, den |-> 1]

\* a division that divides whatever the denominator is
Ba_Unguarded(line) == TrueDiv(line.h, line.ab)

\* BattingStats.ba
Ba(line) == IF line.ab > 0 THEN TrueDiv(line.h, line.ab) ELSE ZeroFloat

\* BattingStats.obp
Obp(line) ==
    LET rate(pa) ==
            IF pa > 0 THEN TrueDiv(line.h + line.bb + line.hbp, pa)
            ELSE ZeroFloat
    IN rate(line.ab + line.bb + line.hbp + line.sac)

\* PitchingStats.era, for 7 innings; ip is held in tenths of an inning
TenthsPerInning == 10

Era(line) ==
    IF line.ip > 0 THEN TrueDiv(line.er * 7 * TenthsPerInning, line.ip)
    ELSE ZeroFloat

\* PitchingStats.whip
Whip(line) ==
    IF line.ip > 0
    THEN TrueDiv((line.bb + line.h) * TenthsPerInning, line.ip)
    ELSE ZeroFloat

\* PitchingStats.strike_pct
StrikePct(line) ==
    IF line.pitches > 0 THEN TrueDiv(line.strikes, line.pitches)
    ELSE ZeroFloat

\* the most of a stat of a line
MaxStat == 2

BattingLines ==
    [ab : 0..MaxStat, h : 0..MaxStat, bb : 0..MaxStat, hbp : 0..MaxStat,
     sac : 0..MaxStat]

\* innings pitched, in tenths: 0, 1.0 and 2.5
InningsPitched == {0, 10, 25}

PitchingLines ==
    [ip : InningsPitched, h : 0..1, er : 0..1, bb : 0..1,
     pitches : 0..MaxStat, strikes : 0..MaxStat]

\* the rates of a batting line are read
ReadBattingRates ==
    \E line \in BattingLines :
        /\ last.op = "init_database"
        /\ last' = [op |-> "batting_rates", outcome |-> "returned", id |-> 0,
                    hit |-> FALSE, args |-> line,
                    report |-> [ba |-> Ba(line), obp |-> Obp(line)],
                    again |-> FALSE]
        /\ UNCHANGED <<tables, calls>>

\* the rates of a pitching line are read
ReadPitchingRates ==
    \E line \in PitchingLines :
        /\ last.op = "init_database"
        /\ last' = [op |-> "pitching_rates", outcome |-> "returned", id |-> 0,
                    hit |-> FALSE, args |-> line,
                    report |-> [era |-> Era(line), whip |-> Whip(line),
                                strike_pct |-> StrikePct(line)],
                    again |-> FALSE]
        /\ UNCHANGED <<tables, calls>>

NextRates == ReadBattingRates \/ ReadPitchingRates

SpecRates == Init /\ [][NextRates]_vars

-----------------------------------------------------------------------------
(* Calls of two processes, statement by statement *)

\* a cap on the rows of a table under the calls below
MaxRaceRows == 2

\* the calls both processes make: create_game with no score, get_or_create_player
\* with no jersey, get_or_create_season with no team
RaceCalls ==
    {[op |-> "create_game", season_id |-> 1, game_date |-> Txt_Sep6,
      opponent_name |-> Txt_Vipers],
     [op |-> "get_or_create_player", name |-> Txt_Ann],
     [op |-> "get_or_create_season", year |-> 2025, season_type |-> "Fall"]}

\* what the SELECT of a call answers: the id fetchone() yields, or None
Looked(db, call) ==
    LET found ==
            IF call.op = "create_game"
            THEN ExistingGames(db, call.season_id, call.game_date,
                               call.opponent_name, NULL, NULL)
            ELSE IF call.op = "get_or_create_player"
            THEN GetPlayerByName(db, CleanDbName(call.name))
            ELSE ExistingSeasons(db, call.year, call.season_type, NULL)
    IN IF found = {} THEN {NULL} ELSE {Some(id) : id \in found}

\* the table a call inserts into
RowsOf(db, call) ==
    IF call.op = "create_game" THEN db.games
    ELSE IF call.op = "get_or_create_player" THEN db.players
    ELSE db.seasons

\* the statement a call runs after its SELECT, on the tables as they are by
\* then: the UPDATE of create_game or nothing on a hit, the INSERT on a miss
Written(db, call, existing) ==
    IF call.op = "create_game"
    THEN IF existing # NULL
         THEN UpdateGame(db, Val(existing), NULL, NULL, NULL, NULL, NULL)
         ELSE InsertGame(db, call.season_id, call.game_date,
                         call.opponent_name, NULL, NULL, NULL, NULL, NULL)
    ELSE IF existing # NULL THEN Returned(db, Val(existing), TRUE)
    ELSE IF call.op = "get_or_create_player"
    THEN CreatePlayer(db, CleanDbName(call.name), NULL)
    ELSE InsertSeason(db, call.year, call.season_type, NULL)

\* process p starts a call and runs its SELECT; where the callers serialize,
\* only while no other call is in flight
Look(p) ==
    /\ calls.of[p] = NoCall
    /\ calls.serialized => \A q \in Procs : calls.of[q] = NoCall
    /\ \E call \in RaceCalls :
           /\ Len(RowsOf(Db, call)) < MaxRaceRows
           /\ \E existing \in Looked(Db, call) :
                  calls' = [calls EXCEPT
                                !.of[p] = [op |-> call.op, call |-> call,
                                           existing |-> existing]]
    /\ UNCHANGED <<tables, last>>

\* process p runs the write of its call and commits
Write(p) ==
    /\ calls.of[p] # NoCall
    /\ LET res == Written(Db, calls.of[p].call, calls.of[p].existing)
       IN /\ age_groups' = res.db.age_groups
          /\ our_teams' = res.db.our_teams
          /\ seasons' = res.db.seasons
          /\ teams' = res.db.teams
          /\ players' = res.db.players
          /\ games' = res.db.games
          /\ batting_stats' = res.db.batting_stats
          /\ pitching_stats' = res.db.pitching_stats
          /\ last' = [op |-> calls.of[p].op, outcome |-> Outcome(res),
                      id |-> res.id, hit |-> res.hit, args |-> <<>>,
                      report |-> NoReport, again |-> FALSE]
    /\ calls' = [calls EXCEPT !.of[p] = NoCall]

\* a fresh store, with callers that serialize their calls or do not
InitRace ==
    /\ age_groups = <<>>
    /\ our_teams = <<>>
    /\ seasons = <<>>
    /\ teams = <<>>
    /\ players = <<>>
    /\ games = <<>>
    /\ batting_stats = {}
    /\ pitching_stats = {}
    /\ last = [op |-> "init_database", outcome |-> "returned", id |-> 0,
               hit |-> FALSE, args |-> <<>>, report |-> NoReport,
               again |-> FALSE]
    /\ \E serialized \in BOOLEAN :
           calls = [serialized |-> serialized, of |-> [p \in Procs |-> NoCall]]

LookStep == \E p \in Procs : Look(p)

WriteStep == \E p \in Procs : Write(p)

NextRace == LookStep \/ WriteStep

SpecRace == InitRace /\ [][NextRace]_vars

-----------------------------------------------------------------------------
(* Claims about the reconciliation layer *)

BothScoresKnown(g) == g.runs_for # NULL /\ g.runs_against # NULL

SameDateAndOpponent(a, b) ==
    /\ a.season_id = b.season_id
    /\ a.game_date = b.game_date
    /\ a.opponent_name = b.opponent_name

\* C1: no two game rows of one season share (game_date, opponent_name)
\* unless both rows have both scores known and their score pairs differ.
C1_NoDuplicateGame ==
    \A i, j \in DOMAIN games :
        (i # j /\ SameDateAndOpponent(games[i], games[j]))
            => /\ BothScoresKnown(games[i])
               /\ BothScoresKnown(games[j])
               /\ <<games[i].runs_for, games[i].runs_against>>
                      # <<games[j].runs_for, games[j].runs_against>>

\* C5: a player is identified by (name, jersey_number): get_or_create_player
\* with a name that is stored under another jersey number only creates a new
\* row for the pair asked for (a different id), and with a stored pair it
\* returns the id of that pair's row and adds no row.
C5_PlayerIdentity ==
    [][\A name \in PlayerNames, j \in Jerseys :
          LET pair == [name |-> CleanDbName(name), jersey_number |-> j]
              samePair == {i \in DOMAIN players : players[i] = pair}
              sameName == {i \in DOMAIN players : players[i].name = pair.name}
          IN DbGetOrCreatePlayer(name, j)
                 => /\ samePair # {}
                        => last'.id \in samePair /\ players' = players
                    /\ (/\ sameName # {}
                        /\ j # NULL
                        /\ \A i \in sameName :
                               /\ players[i].jersey_number # NULL
                               /\ players[i].jersey_number # j)
                        => /\ last'.id \notin DOMAIN players
                           /\ players'[last'.id] = pair]_vars

\* the row create_game is to leave at id when it matched it: each merged
\* column is the supplied value if that is non-NULL, else the stored one
MergedRow(old, win_loss, runs_for, runs_against, opponent_team_id, notes) ==
    [season_id |-> old.season_id,
     game_date |-> old.game_date,
     opponent_name |-> old.opponent_name,
     win_loss |-> IF win_loss # NULL THEN win_loss ELSE old.win_loss,
     runs_for |-> IF runs_for # NULL THEN runs_for ELSE old.runs_for,
     runs_against |->
         IF runs_against # NULL THEN runs_against ELSE old.runs_against,
     opponent_team_id |->
         IF opponent_team_id # NULL THEN opponent_team_id
         ELSE old.opponent_team_id,
     notes |-> IF notes # NULL THEN notes ELSE old.notes]

\* the table after is the table before with the merge at one matched row,
\* every other row as it was and no row added
MergedInto(before, after, existing, win_loss, runs_for, runs_against, opponent_team_id, notes) ==
    /\ DOMAIN after = DOMAIN before
    /\ \E id \in existing :
           /\ after[id] = MergedRow(before[id], win_loss, runs_for,
                                    runs_against, opponent_team_id, notes)
           /\ \A other \in DOMAIN before \ {id} : after[other] = before[other]

\* C6 as claimed: whenever create_game matches an existing row, the row ends
\* up merged (supplied non-NULL values stored, stored values kept under a
\* supplied NULL), its key columns and every other row unchanged.  Stated of
\* every call that can be made in the current state.
C6_MatchAlwaysMerges ==
    \A s \in SeasonIdArgs, wl \in WinLossArgs, rf \in RunsForArgs,
       ra \in RunsAgainstArgs, t \in TeamIdArgs, n \in NotesArgs :
        LET existing == ExistingGames(Db, s, Txt_Sep6, Txt_Vipers, rf, ra)
        IN existing # {}
               => \A res \in CreateGame(Db, s, Txt_Sep6, Txt_Vipers,
                                        wl, rf, ra, t, n) :
                      MergedInto(games, res.db.games, existing,
                                 wl, rf, ra, t, n)

\* C6, amended: when create_game matches an existing row and returns, the row
\* ends up merged, its key columns and every other row unchanged, and the id
\* returned is that row's; when the merged row violates a constraint of the
\* games table the call raises and no row is modified.
C6_MatchMergesOrRaises ==
    \A s \in SeasonIdArgs, wl \in WinLossArgs, rf \in RunsForArgs,
       ra \in RunsAgainstArgs, t \in TeamIdArgs, n \in NotesArgs :
        LET existing == ExistingGames(Db, s, Txt_Sep6, Txt_Vipers, rf, ra)
        IN existing # {}
               => \A res \in CreateGame(Db, s, Txt_Sep6, Txt_Vipers,
                                        wl, rf, ra, t, n) :
                      IF res.raised
                      THEN res.db = Db
                      ELSE /\ res.id \in existing
                           /\ MergedInto(games, res.db.games, {res.id},
                                         wl, rf, ra, t, n)
                           /\ [res.db EXCEPT !.games = games] = Db

\* a matched row was merged and kept a stored value next to a supplied one
C6_Witness ==
    /\ last.op = "create_game"
    /\ last.hit
    /\ last.outcome = "returned"
    /\ Len(games) >= 2
    /\ games[last.id].win_loss # NULL
    /\ games[last.id].notes # NULL
    /\ games[last.id].opponent_team_id # NULL

\* C7: get_or_create_our_team on an existing (name, age_group) whose location
\* is NULL, with a location, leaves the location stored; get_or_create_player
\* on an existing player whose jersey is NULL, with a jersey, leaves the
\* jersey stored.
C7_MergeOnHit ==
    [][/\ \A loc \in Locations \ {NULL} :
              (/\ DbGetOrCreateOurTeam(Txt_Storm, 1, loc)
               /\ last'.hit
               /\ our_teams[last'.id].location = NULL)
                  => our_teams'[last'.id].location = loc
       /\ \A name \in PlayerNames, j \in Jerseys \ {NULL} :
              (/\ DbGetOrCreatePlayer(name, j)
               /\ last'.hit
               /\ players[last'.id].jersey_number = NULL)
                  => players'[last'.id].jersey_number = j]_vars

-----------------------------------------------------------------------------
(* Claims about the imports of CSV files *)

IsCsvCall(args) == DetectFileType(args.file) \in {"csv", "gamechanger_csv"}

SeasonGiven(args) == args.season_id # NULL /\ Val(args.season_id) # 0

\* the file can be read, it has a data row and its dialect is recognised
DialectRecognised(args) ==
    /\ args.file.readable
    /\ DictRows(args.file) # <<>>
    /\ DetectCsvFormat(Keys(args.file.headers)).format_type # "unknown"
    /\ DetectCsvFormat(Keys(args.file.headers)).col_map # <<>>

\* the game fields the importer resolves for a call
ResolvedInfo(args) ==
    ResolveGameInfo(args.file, DictRows(args.file)[1],
                    ReverseMap(DetectCsvFormat(Keys(args.file.headers)).col_map),
                    args.game_date, args.game_time, args.opponent,
                    args.win_loss, args.runs_for, args.runs_against)

\* the first data row has a cell for every header and no cell more
FirstRowFits(args) ==
    Len(DictRows(args.file)[1]) = Len(args.file.headers)

\* a CSV import that gets as far as its game: a date is resolved
ResolvesDate(args) ==
    /\ IsCsvCall(args)
    /\ SeasonGiven(args)
    /\ DialectRecognised(args)
    /\ FirstRowFits(args)
    /\ Truthy(ResolvedInfo(args).game_date)

ResolvedDate(args) == Val(ResolvedInfo(args).game_date)

ResolvedOpponent(args) ==
    IF Truthy(ResolvedInfo(args).opponent)
    THEN Val(ResolvedInfo(args).opponent)
    ELSE args.file.stem

\* the game rows of the season of the call on its date against its opponent
GamesOfFile(rows, args) ==
    {id \in DOMAIN rows :
        /\ rows[id].season_id = Val(args.season_id)
        /\ rows[id].game_date = ResolvedDate(args)
        /\ rows[id].opponent_name = ResolvedOpponent(args)}

\* C2: an import_file call on a CSV file that repeats the call before it
\* (same file, season and overrides) returns, as the first did, with the
\* same game_id; the season then holds exactly one game row for the file and
\* batting_stats has as many rows as after the first import.
C2_ReimportIdempotent ==
    [][(/\ last'.op = "import_file"
        /\ last'.again
        /\ ResolvesDate(last'.args))
           => /\ last.outcome = "returned"
              /\ last'.outcome = "returned"
              /\ last'.report.game_id # NULL
              /\ last'.report.game_id = last.report.game_id
              /\ Cardinality(GamesOfFile(games', last'.args)) = 1
              /\ Cardinality(batting_stats') = Cardinality(batting_stats)]_vars

\* the games of the season of the call on its date whose opponent name
\* holds, or is held by, the opponent of the call
SimilarGames(rows, args) ==
    {id \in DOMAIN rows :
        /\ rows[id].season_id = Val(args.season_id)
        /\ rows[id].game_date = ResolvedDate(args)
        /\ SimilarOpponent(rows[id].opponent_name, ResolvedOpponent(args))}

\* C3: when an import_file call on a CSV file resolves a date and an
\* opponent and the season holds a game on that date with a similar
\* opponent name, the call returns the id of such a game, creates no game
\* row and attaches the batting lines it imports to that game.
C3_FuzzyMatchAttaches ==
    [][(/\ last'.op = "import_file"
        /\ ResolvesDate(last'.args)
        /\ SimilarGames(games, last'.args) # {})
           => /\ last'.outcome = "returned"
              /\ Len(games') = Len(games)
              /\ last'.report.game_id # NULL
              /\ Val(last'.report.game_id) \in SimilarGames(games, last'.args)
              /\ last'.report.stats_imported > 0
                     => \E line \in batting_stats' :
                            line.game_id = Val(last'.report.game_id)]_vars

\* no date override, no value in a mapped date column of the first data row
\* and no date in the file name
NoDateAnywhere(args) ==
    LET headers == args.file.headers
        first_row == DictRows(args.file)[1]
        reverse_map ==
            ReverseMap(DetectCsvFormat(Keys(args.file.headers)).col_map)
    IN /\ ~Truthy(args.game_date)
       /\ DictHas(reverse_map, "game_date")
              => Strip(TextOf(MetaCell(headers, first_row, reverse_map,
                                       "game_date"))) = <<>>
       /\ ~Truthy(ParseFilenameForGameInfo(args.file.stem).game_date)

\* C4: an import_file call on a readable CSV file of a recognised dialect,
\* with a season id, that finds no date (no override, no value in a mapped
\* date column of the first data row, none in the file name) returns a
\* report with game_id null, a non-empty errors list and 'game_date' among
\* missing_fields, and leaves games, players and batting_stats as they were.
C4_MissingDateNoEffect ==
    [][(/\ last'.op = "import_file"
        /\ IsCsvCall(last'.args)
        /\ SeasonGiven(last'.args)
        /\ DialectRecognised(last'.args)
        /\ NoDateAnywhere(last'.args))
           => /\ last'.outcome = "returned"
              /\ last'.report.game_id = NULL
              /\ last'.report.errors # <<>>
              /\ "game_date" \in Range(last'.report.missing_fields)
              /\ games' = games
              /\ players' = players
              /\ batting_stats' = batting_stats]_vars

-----------------------------------------------------------------------------
(* Claims about the imports of workbooks *)

IsExcelCall(args) == DetectFileType(args.file) = "excel"

\* the season ids of the details of a workbook report
SeasonIdsOf(report) ==
    [i \in DOMAIN report.details |-> report.details[i].season_id]

\* C8: an import_file call on a workbook that repeats the call before it
\* changes no row of any table and ends as the first import did; where it
\* returns, each sheet and block reports the season id the first import
\* reported.
C8_ExcelReimport ==
    [][(/\ last'.op = "import_file"
        /\ IsExcelCall(last'.args)
        /\ last'.again)
           => /\ Db' = Db
              /\ last'.outcome = last.outcome
              /\ last'.outcome = "returned"
                     => SeasonIdsOf(last'.report) = SeasonIdsOf(last.report)]_vars

\* a workbook with games and players has been imported twice in a row
C8_Witness ==
    /\ last.op = "import_file"
    /\ IsExcelCall(last.args)
    /\ last.again
    /\ last.outcome = "returned"
    /\ last.report.total_games > 0
    /\ Len(seasons) > 0
    /\ Len(players) > 0
    /\ Len(games) > 0

\* the scans of a sheet with their seasons: one of a single-season sheet
\* that names its season, one per block of a multi-season sheet
ScansOf(ws) ==
    LET season_rows == SeasonRows(ws)
        block(i) ==
            LET start_row == season_rows[i]
                end_row == BlockEnd(season_rows, i)
            IN [season |-> CellSeason(Cell(ws, start_row, 1)),
                found |-> BlockFound(ws, start_row, end_row)]
    IN IF IsMultiSeason(ws)
       THEN {block(i) : i \in DOMAIN season_rows}
       ELSE IF FallSheetSeason(ws) = NULL THEN {}
       ELSE {[season |-> FallSheetSeason(ws), found |-> FallSheetFound(ws)]}

\* the games and the players of a scan are rows of the tables
ScanStored(scan, season_rows, game_rows, player_rows) ==
    /\ \A i \in DOMAIN scan.found.games :
           \E id \in DOMAIN game_rows :
               /\ game_rows[id].game_date = scan.found.games[i].game_date
               /\ game_rows[id].opponent_name = scan.found.games[i].opponent
               /\ game_rows[id].runs_for = Some(scan.found.games[i].rf)
               /\ game_rows[id].runs_against = Some(scan.found.games[i].ra)
               /\ season_rows[game_rows[id].season_id].year = scan.season.year
               /\ season_rows[game_rows[id].season_id].season_type
                      = scan.season.season_type
    /\ \A name \in FoundNames(scan.found) :
           \E id \in DOMAIN player_rows : player_rows[id].name = name

C10_PerFileAtomic ==
    [][(last'.op = "import_file" /\ last'.outcome = "raised")
           => Db' = Db]_vars

-----------------------------------------------------------------------------
(* Claims about batches of files *)

\* C11: an import_multiple_files call never raises: it returns a report
\* whose files_processed is the number of files of the batch, with one entry
\* of details per file, so that every file after one that fails is still
\* processed.
C11_BatchNeverRaises ==
    [][last'.op = "import_multiple_files"
           => /\ last'.outcome = "returned"
              /\ last'.report.files_processed = Len(last'.args.file_paths)
              /\ Len(last'.report.details) = Len(last'.args.file_paths)]_vars

-----------------------------------------------------------------------------
(* Claims about interleaved calls *)

\* two rows of a table that the lookup of a call takes for the same thing
DuplicateGames ==
    \E i, j \in DOMAIN games :
        i # j /\ SameDateAndOpponent(games[i], games[j])

DuplicatePlayers ==
    \E i, j \in DOMAIN players : i # j /\ players[i].name = players[j].name

DuplicateSeasons ==
    \E i, j \in DOMAIN seasons : i # j /\ seasons[i] = seasons[j]

\* C12: where the callers run one call after the other, create_game calls
\* without a score, get_or_create_player calls without a jersey and
\* get_or_create_season calls without a team leave no duplicate game,
\* player or season row.
C12_SerialNoDuplicates ==
    calls.serialized
        => ~DuplicateGames /\ ~DuplicatePlayers /\ ~DuplicateSeasons

\* C12: interleaved calls have left duplicate rows: two calls of each kind
\* found nothing and both inserted
C12_RaceDuplicates ==
    /\ ~calls.serialized
    /\ DuplicateGames
    /\ DuplicatePlayers
    /\ DuplicateSeasons

-----------------------------------------------------------------------------
(* Claims about what the imports keep *)

\* every row of a table is a row of the table after the step, under its id
RowsKept(before, after) ==
    /\ Len(after) >= Len(before)
    /\ \A id \in DOMAIN before : after[id] = before[id]

\* every game is a game of the same season, date and opponent after the step
GamesKept(before, after) ==
    /\ Len(after) >= Len(before)
    /\ \A id \in DOMAIN before : SameDateAndOpponent(after[id], before[id])

\* C13: an import of a workbook or of a CSV file removes no age group, team,
\* season, player or game: every row of these tables is there after the
\* import under its id, and no table has fewer rows than before.
C13_ImportsAdditive ==
    [][last'.op \in {"import_file", "legacy_import_csv"}
           => /\ RowsKept(age_groups, age_groups')
              /\ RowsKept(our_teams, our_teams')
              /\ RowsKept(teams, teams')
              /\ RowsKept(seasons, seasons')
              /\ RowsKept(players, players')
              /\ GamesKept(games, games')]_vars

\* a workbook has been imported into a store that held the game and the
\* players of a CSV file, and has added games to it
C13_Witness ==
    /\ last.op = "import_file"
    /\ IsExcelCall(last.args)
    /\ last.outcome = "returned"
    /\ \E line \in batting_stats : line.game_id \in DOMAIN games
    /\ \E id \in DOMAIN games :
           \A line \in batting_stats : line.game_id # id
    /\ Len(age_groups) > 0
    /\ Len(our_teams) > 0
    /\ Len(seasons) > 1

-----------------------------------------------------------------------------
(* Claims about the batting lines of CSV files *)

\* what the stat loop reads from the rows of the file of a call
EntriesOf(args) ==
    StatEntries(args.file.headers, DictRows(args.file),
                ReverseMap(DetectCsvFormat(Keys(args.file.headers)).col_map))

\* the rows of the file that name a player
NamedRows(args) ==
    {i \in DOMAIN EntriesOf(args) : EntriesOf(args)[i].player_name # <<>>}

\* the distinct non-empty player names of the file
NamesOf(args) == {EntriesOf(args)[i].player_name : i \in NamedRows(args)}

\* the stat line of the last row of the file with a name
LastLineOf(args, name) ==
    LET last_row == CHOOSE i \in NamedRows(args) :
                        /\ EntriesOf(args)[i].player_name = name
                        /\ \A j \in NamedRows(args) :
                               EntriesOf(args)[j].player_name = name => j <= i
    IN EntriesOf(args)[last_row].line

\* the batting lines of a game
LinesOfGame(lines, game_id) == {b \in lines : b.game_id = game_id}

\* at most one batting line per (game_id, player_id)
OneLinePerPlayer(lines) ==
    \A a, b \in lines :
        (a.game_id = b.game_id /\ a.player_id = b.player_id) => a = b

\* C14: after an import_file call on a CSV file that resolves a date there is
\* at most one batting_stats row per (game_id, player_id); the call returns
\* its game, which then has exactly one batting line per distinct non-empty
\* player name of the file, holding the stats of the last row with that
\* name, and stats_imported equals the number of batting lines of the game
\* exactly when no player name repeats.
C14_OneLinePerName ==
    [][(/\ last'.op = "import_file"
        /\ ResolvesDate(last'.args)
        /\ NamedRows(last'.args) # {})
           => /\ OneLinePerPlayer(batting_stats')
              /\ last'.outcome = "returned"
              /\ last'.report.game_id # NULL
              /\ Cardinality(LinesOfGame(batting_stats',
                                         Val(last'.report.game_id)))
                     = Cardinality(NamesOf(last'.args))
              /\ \A name \in NamesOf(last'.args) :
                     \E b \in LinesOfGame(batting_stats',
                                          Val(last'.report.game_id)) :
                         b.line = LastLineOf(last'.args, name)
              /\ (last'.report.stats_imported
                      = Cardinality(LinesOfGame(batting_stats',
                                                Val(last'.report.game_id))))
                     <=> (Cardinality(NamesOf(last'.args))
                              = Cardinality(NamedRows(last'.args)))]_vars

-----------------------------------------------------------------------------
(* Claims about the game fields of CSV files *)

\* the stripped value of the mapped column of a field in the first data row,
\* '' where no column is mapped to the field
CsvValueOf(args, field) ==
    LET reverse_map ==
            ReverseMap(DetectCsvFormat(Keys(args.file.headers)).col_map)
    IN IF DictHas(reverse_map, field)
       THEN Strip(TextOf(MetaCell(args.file.headers, DictRows(args.file)[1],
                                  reverse_map, field)))
       ELSE <<>>

\* the override if supplied, else the non-empty CSV value, else the value
\* derived from the file name
ByPriority(override, csv_value, file_value) ==
    IF Truthy(override) THEN override
    ELSE IF csv_value # <<>> THEN Some(csv_value)
    ELSE file_value

\* C15: an import_file call on a CSV file that resolves a date returns its
\* game, and the game stored holds as game_date and opponent_name the
\* override if supplied, else the non-empty value of the mapped column in
\* the first data row, else the value derived from the file name; a
\* supplied win_loss, runs_for or runs_against override is the value stored.
C15_ResolutionPriority ==
    [][(/\ last'.op = "import_file"
        /\ ResolvesDate(last'.args)
        /\ Truthy(ResolvedInfo(last'.args).opponent))
           => /\ last'.outcome = "returned"
              /\ last'.report.game_id # NULL
              /\ Val(last'.report.game_id) \in DOMAIN games'
              /\ Some(games'[Val(last'.report.game_id)].game_date)
                     = ByPriority(
                           last'.args.game_date,
                           CsvValueOf(last'.args, "game_date"),
                           ParseFilenameForGameInfo(last'.args.file.stem).game_date)
              /\ Some(games'[Val(last'.report.game_id)].opponent_name)
                     = ByPriority(
                           last'.args.opponent,
                           CsvValueOf(last'.args, "opponent"),
                           ParseFilenameForGameInfo(last'.args.file.stem).opponent)
              /\ Truthy(last'.args.win_loss)
                     => games'[Val(last'.report.game_id)].win_loss
                            = last'.args.win_loss
              /\ last'.args.runs_for # NULL
                     => games'[Val(last'.report.game_id)].runs_for
                            = last'.args.runs_for
              /\ last'.args.runs_against # NULL
                     => games'[Val(last'.report.game_id)].runs_against
                            = last'.args.runs_against]_vars

-----------------------------------------------------------------------------
(* Claims about the dialect of a header row *)

\* the keys detect_csv_format tests for the GameChanger dialect
HasGamechangerKey(headers) ==
    Txt_GcPlayerName \in Range(headers) \/ Txt_AgCell \in Range(headers)

\* the headers of a row that equal a synonym of a field after trim and
\* lower-casing
SynonymsOf(headers, field) ==
    {i \in DOMAIN headers :
        \E n \in DOMAIN STANDARD_COLUMN_MAP :
            STANDARD_COLUMN_MAP[n] = <<Strip(Lower(headers[i])), field>>}

StandardFields == {STANDARD_COLUMN_MAP[n][2] : n \in DOMAIN STANDARD_COLUMN_MAP}

HasSynonym(headers) ==
    \E field \in StandardFields : SynonymsOf(headers, field) # {}

\* the mapping holds keys of GAMECHANGER_COLUMN_MAP only
OnlyGamechangerKeys(col_map) ==
    \A i \in DOMAIN col_map :
        \E n \in DOMAIN GAMECHANGER_COLUMN_MAP :
            GAMECHANGER_COLUMN_MAP[n] = col_map[i]

C17_FirstHeaderRead ==
    (last.op = "detect_csv_format"
     /\ last.report.detected.format_type = "standard")
        => \A field \in StandardFields :
               SynonymsOf(last.args.headers, field) # {}
                   => /\ DictHas(last.report.reverse_map, field)
                      /\ DictGet(last.report.reverse_map, field)
                             = last.args.headers[
                                   CHOOSE i \in SynonymsOf(last.args.headers, field) :
                                       \A j \in SynonymsOf(last.args.headers, field) :
                                           i <= j]

-----------------------------------------------------------------------------
(* Claims about file names *)

\* the name is game<N>_<month-abbrev><day>_<opponent-slug>: the word game,
\* a number, an English month abbreviation of 3 letters or more, a day of 1
\* or 2 digits and an opponent
FollowsPattern(parts) ==
    /\ Lower(parts.word) = Txt_game
    /\ parts.number # <<>>
    /\ Len(parts.month) >= 3
    /\ \E m \in DOMAIN Months : Months[m] = Lower(SubSeq(parts.month, 1, 3))
    /\ Len(parts.day) \in 1..2
    /\ parts.opponent # <<>>

AllNull(info) ==
    info.game_num = NULL /\ info.game_date = NULL /\ info.opponent = NULL

NoneNull(info) ==
    info.game_num # NULL /\ info.game_date # NULL /\ info.opponent # NULL

\* C18: parse_filename_for_game_info returns game_num, game_date and
\* opponent all null for a name that deviates from
\* game<N>_<month-abbrev><day>_<opponent-slug>, and never returns some of
\* the three set and the others null.
C18_AllOrNothing ==
    last.op = "parse_filename_for_game_info"
        => /\ ~FollowsPattern(last.args.parts) => AllNull(last.report)
           /\ AllNull(last.report) \/ NoneNull(last.report)

-----------------------------------------------------------------------------
(* Claims about the layout of a sheet *)

\* the distinct (season_type, year) pairs of column 1 of a sheet
SeasonPairs(ws) ==
    {<<CellSeason(Cell(ws, r, 1)).season_type, CellSeason(Cell(ws, r, 1)).year>>
     : r \in {q \in 1..MarkerRows : SeasonResolved(CellSeason(Cell(ws, q, 1)))}}

\* the results of import_season_block name their season, those of
\* import_fall_sheet do not
IsBlockResult(result) == "season" \in DOMAIN result

-----------------------------------------------------------------------------
(* Claims about roster rows *)

HeaderLiterals ==
    {<<"p", "l", "a", "y", "e", "r">>, <<"n", "a", "m", "e">>,
     <<"p", "l", "a", "y", "e", "r", "s">>, <<"t", "o", "t", "a", "l", "s">>,
     <<"#">>, <<>>}

JerseyLiterals ==
    {<<"#">>, <<"n", "o">>, <<"n", "o", ".">>, <<"n", "u", "m">>,
     <<"n", "u", "m", "b", "e", "r">>, <<"j", "e", "r", "s", "e", "y">>}

\* the trimmed text of a cell, '' for no cell
TrimmedText(v) == IF v = NULL THEN <<>> ELSE Strip(CellStr(v))

\* the name cell is a header literal or the jersey cell is one
IsHeaderRow(name, jersey) ==
    \/ Lower(TrimmedText(name)) \in HeaderLiterals
    \/ jersey # NULL /\ Lower(TrimmedText(jersey)) \in JerseyLiterals

Annotations == {<<"(", "R", ")">>, <<"(", "L", ")">>, <<"(", "S", ")">>}

\* a name without its trailing (R), (L) or (S) and the blanks before it
WithoutAnnotation(text) ==
    IF Len(text) >= 3 /\ SubSeq(text, Len(text) - 2, Len(text)) \in Annotations
    THEN Strip(SubSeq(text, 1, Len(text) - 3))
    ELSE text

\* C20 as stated: after an import that returns, a roster row whose name cell
\* is a header literal or whose jersey cell is one has produced no player
\* row, and every other row with a non-empty name has produced a player
\* under its name without the trailing (R)/(L)/(S).
C20_EveryOtherRowStored ==
    (last.op = "import_file" /\ last.outcome = "returned")
        => IF IsHeaderRow(last.args.name, last.args.jersey)
           THEN players = <<>>
           ELSE /\ Len(players) = 1
                /\ players[1].name
                       = WithoutAnnotation(TrimmedText(last.args.name))

\* C20: after an import that returns, a roster row whose name cell is a
\* header literal or whose jersey cell is one, or whose name is nothing but
\* an annotation, has produced no player row; every other row has produced
\* a player under its name without the trailing (R)/(L)/(S).
C20_NamedRowsStored ==
    (last.op = "import_file" /\ last.outcome = "returned")
        => IF \/ IsHeaderRow(last.args.name, last.args.jersey)
              \/ WithoutAnnotation(TrimmedText(last.args.name)) = <<>>
           THEN players = <<>>
           ELSE /\ Len(players) = 1
                /\ players[1].name
                       = WithoutAnnotation(TrimmedText(last.args.name))

\* a row with an annotated name beside a jersey number has produced a player
C20_Witness ==
    /\ last.op = "import_file"
    /\ last.outcome = "returned"
    /\ last.args.name = TextCell(Txt_AnnR)
    /\ last.args.jersey = NumCell(7)
    /\ Len(players) = 1
    /\ players[1].name = Txt_Ann

-----------------------------------------------------------------------------
(* Claims about stat cells *)

\* the cell is None, empty or no number
NotNumeric(val) ==
    \/ val = NULL
    \/ Val(val) = <<>>
    \/ ParseFloat(Val(val)).kind \in {"invalid", "nan"}

\* C21: safe_int returns for every cell content, without raising, and
\* returns 0 for a cell that is None, empty or not numeric.
C21_SafeIntTotal ==
    last.op = "safe_int"
        => /\ last.outcome = "returned"
           /\ NotNumeric(last.args.val) => last.id = 0

-----------------------------------------------------------------------------
(* Claims about the rows of CSV files *)

\* a date for the game of the call: an override, a value in the mapped date
\* column of the first data row, or a date in the file name
DateAvailable(args) ==
    \/ Truthy(args.game_date)
    \/ CsvValueOf(args, "game_date") # <<>>
    \/ Truthy(ParseFilenameForGameInfo(args.file.stem).game_date)

\* C22: an import_file call on a CSV file of a recognised dialect, with a
\* season and a date, returns: the rows without a player name (an empty
\* cell, or no cell in a line too short) are skipped, stats_imported counts
\* the rows that name a player, and each of these has its player.
C22_NamelessRowsSkipped ==
    [][(/\ last'.op = "import_file"
        /\ IsCsvCall(last'.args)
        /\ SeasonGiven(last'.args)
        /\ DialectRecognised(last'.args)
        /\ DateAvailable(last'.args))
           => /\ last'.outcome = "returned"
              /\ last'.report.stats_imported
                     = Cardinality(NamedRows(last'.args))
              /\ \A name \in NamesOf(last'.args) :
                     \E id \in DOMAIN players' :
                         players'[id].name = CleanDbName(name)]_vars

-----------------------------------------------------------------------------
(* Claims about rates *)

\* the rate is the float 0.0
IsZero(rate) == rate.kind = "float" /\ rate.num = 0

\* C23 as stated: a batting line with ab = 0 has ba = 0 and obp = 0 whatever
\* its bb, hbp and sac, and a pitching line with ip = 0 has era = 0,
\* whip = 0 and strike_pct = 0 whatever its pitches and strikes.
C23_ZeroForZeroAtBats ==
    /\ (last.op = "batting_rates" /\ last.args.ab = 0)
           => IsZero(last.report.ba) /\ IsZero(last.report.obp)
    /\ (last.op = "pitching_rates" /\ last.args.ip = 0)
           => /\ IsZero(last.report.era)
              /\ IsZero(last.report.whip)
              /\ IsZero(last.report.strike_pct)

\* C23: no rate of a line is a division error; ba is 0 for ab = 0; obp is 0
\* for ab + bb + hbp + sac = 0; era and whip are 0 for ip = 0; strike_pct is
\* 0 for pitches = 0.
C23_ZeroForZeroDenominator ==
    /\ last.op = "batting_rates"
           => /\ last.report.ba.kind = "float"
              /\ last.report.obp.kind = "float"
              /\ last.args.ab = 0 => IsZero(last.report.ba)
              /\ last.args.ab + last.args.bb + last.args.hbp + last.args.sac = 0
                     => IsZero(last.report.obp)
    /\ last.op = "pitching_rates"
           => /\ last.report.era.kind = "float"
              /\ last.report.whip.kind = "float"
              /\ last.report.strike_pct.kind = "float"
              /\ last.args.ip = 0
                     => IsZero(last.report.era) /\ IsZero(last.report.whip)
              /\ last.args.pitches = 0 => IsZero(last.report.strike_pct)

\* the rates of a line without an at-bat and with a walk have been read
C23_Witness ==
    /\ last.op = "batting_rates"
    /\ last.args.ab = 0
    /\ last.args.bb > 0
    /\ IsZero(last.report.ba)
    /\ ~IsZero(last.report.obp)

-----------------------------------------------------------------------------
(* Claims about the game of a CSV file *)

\* C24: an import_file call on a CSV file of a recognised dialect, with a
\* season and a date it resolves, returns; game_id of its report is the id
\* of a game row of that season, and stats_imported is the number of rows
\* that name a player.
C24_CsvImportReturnsGame ==
    [][(/\ last'.op = "import_file"
        /\ ResolvesDate(last'.args))
           => /\ last'.outcome = "returned"
              /\ last'.report.game_id # NULL
              /\ Val(last'.report.game_id) \in DOMAIN games'
              /\ games'[Val(last'.report.game_id)].season_id
                     = Val(last'.args.season_id)
              /\ last'.report.stats_imported
                     = Cardinality(NamedRows(last'.args))]_vars

-----------------------------------------------------------------------------
(* Claims about the files of a batch *)

\* the call the batch makes for a file when it passes no override
BatchCall(args, file) == ImportArgs(file, args.season_id, NULL, NULL)

\* a CSV file of a recognised dialect with a season, and no date in a date
\* column or in its filename
DateMissing(args) ==
    /\ IsCsvCall(args)
    /\ SeasonGiven(args)
    /\ DialectRecognised(args)
    /\ FirstRowFits(args)
    /\ ~DateAvailable(args)

\* C25: in an import_multiple_files call every CSV file is imported without
\* an override of the caller: a file without a date in a date column or in
\* its filename has the date-required error in its entry of details, and no
\* game.
C25_BatchPassesNoOverride ==
    [][last'.op = "import_multiple_files"
           => \A i \in DOMAIN last'.args.file_paths :
                  DateMissing(BatchCall(last'.args, last'.args.file_paths[i]))
                      => /\ last'.outcome = "returned"
                         /\ last'.report.details[i].errors
                                = <<"Game date is required">>
                         /\ last'.report.details[i].game_id = NULL]_vars

-----------------------------------------------------------------------------
(* Claims about the dialect of a file *)

\* C26: for every header row of a CSV file, detect_file_type returns
\* 'gamechanger_csv' exactly when detect_csv_format classifies the same
\* headers as 'gamechanger'.
C26_DialectsAgree ==
    last.op = "detect_file_type"
        => (last.report.file_type = "gamechanger_csv"
                <=> last.report.detected.format_type = "gamechanger")

-----------------------------------------------------------------------------
(* Claims about the blocks of a multi-season sheet *)

\* the rows of a sheet that hold a cell
SheetRows(ws) == {p[1] : p \in DOMAIN ws}

\* the rows among rows whose cell of column 1 is the first to name its season
FirstMentions(ws, rows) ==
    {r \in rows :
        /\ SeasonResolved(CellSeason(Cell(ws, r, 1)))
        /\ \A q \in rows :
               CellSeason(Cell(ws, q, 1)) = CellSeason(Cell(ws, r, 1))
                   => r <= q}

\* the rows whose cell of column 1 is a game entry
GameRowsOf(ws) == {r \in SheetRows(ws) : ParseGameEntry(Cell(ws, r, 1)) # NULL}

\* the seasons that hold a game of the date of the entry of row r
SeasonsOfRow(ws, r) ==
    {<<seasons[games[g].season_id].season_type,
       seasons[games[g].season_id].year>>
     : g \in {h \in DOMAIN games :
                 games[h].game_date
                     = ParseGameEntry(Cell(ws, r, 1)).game_date}}

\* the season of the block that covers row r, where the blocks start at the
\* rows markers: that of the nearest marker before r, from its third row on
BlockSeasonOf(ws, markers, r) ==
    LET season(m) ==
            {<<CellSeason(Cell(ws, m, 1)).season_type,
               CellSeason(Cell(ws, m, 1)).year>>}
        nearest(before) ==
            IF before = {} THEN {}
            ELSE IF \E m \in before :
                        /\ \A q \in before : q <= m
                        /\ m + DataOffset <= r
                        /\ r <= LastBlockEnd
            THEN season(CHOOSE m \in before : \A q \in before : q <= m)
            ELSE {}
    IN nearest({m \in markers : m < r})

\* an import of a workbook of one sheet in the multi-season layout returned
MultiSeasonImported ==
    /\ last.op = "import_file"
    /\ IsExcelCall(last.args)
    /\ Len(last.args.file.sheets) = 1
    /\ last.outcome = "returned"
    /\ IsMultiSeason(last.args.file.sheets[1])

-----------------------------------------------------------------------------
(* Claims about the row scan of a single-season sheet *)

\* the row is empty for the scan: no game entry, no pitcher name and no
\* batter name
TrackedEmpty(ws, row) ==
    /\ ~CellTruthy(Cell(ws, row, 1))
    /\ CleanPlayerName(Cell(ws, row, FallLayout.pitcher_name)) = <<>>
    /\ CleanPlayerName(Cell(ws, row, FallLayout.batter_name)) = <<>>

\* the cells of the three columns are empty in the 4 rows after row
FollowedByEmpty(ws, row) ==
    \A q \in (row + 1)..(row + Lookahead) :
        \A column \in {1, FallLayout.pitcher_name, FallLayout.batter_name} :
            ~CellTruthy(Cell(ws, row + (q - row), column))

\* a run of 5 empty rows starts at a scanned row before row
RunPrecedes(ws, row) ==
    \E q \in FirstDataRow..(row - 1) :
        TrackedEmpty(ws, q) /\ FollowedByEmpty(ws, q)

\* the game entry of the row is a game of the store
GameImported(ws, row) ==
    \E g \in DOMAIN games :
        games[g].game_date = ParseGameEntry(Cell(ws, row, 1)).game_date

\* an import of a workbook of one single-season sheet returned a season
SingleSeasonImported ==
    /\ last.op = "import_file"
    /\ IsExcelCall(last.args)
    /\ Len(last.args.file.sheets) = 1
    /\ last.outcome = "returned"
    /\ ~IsMultiSeason(last.args.file.sheets[1])
    /\ last.report.details[1].season_id # NULL

-----------------------------------------------------------------------------
(* Claims about the score of a merged game *)

\* the call has no runs_for of its own: no override and no runs_for column,
\* but a runs column to sum
DerivesRunsFor(args) ==
    /\ args.runs_for = NULL
    /\ CsvValueOf(args, "runs_for") = <<>>
    /\ DictHas(ReverseMap(DetectCsvFormat(Keys(args.file.headers)).col_map),
               "r")

\* the games with a runs_for that the call resolves to
ScoredGamesOf(args) ==
    {g \in DOMAIN games :
        /\ games[g].season_id = Val(args.season_id)
        /\ games[g].game_date = ResolvedDate(args)
        /\ games[g].opponent_name = ResolvedOpponent(args)
        /\ games[g].runs_for # NULL}

-----------------------------------------------------------------------------
(* Claims about the season of a single-season sheet *)

\* the (season_type, year) of a row of the seasons table
SeasonPairOf(id) == <<seasons[id].season_type, seasons[id].year>>

\* C30: a sheet with exactly one distinct (season_type, year) in rows 1 to
\* 99 of column 1 is imported under that season, wherever the marker is:
\* its entry of details has the id of a season of that pair; and the error
\* of a sheet without a season is in the errors of the report of the file.
C30_SingleSeasonResolved ==
    (/\ last.op = "import_file"
     /\ IsExcelCall(last.args)
     /\ Len(last.args.file.sheets) = 1
     /\ last.outcome = "returned"
     /\ ~IsMultiSeason(last.args.file.sheets[1]))
        => /\ Cardinality(SeasonPairs(last.args.file.sheets[1])) = 1
               => /\ last.report.details[1].season_id # NULL
                  /\ SeasonPairOf(Val(last.report.details[1].season_id))
                         \in SeasonPairs(last.args.file.sheets[1])
           /\ last.report.details[1].season_id = NULL
               => \A i \in DOMAIN last.report.details[1].errors :
                      \E j \in DOMAIN last.report.errors :
                          last.report.errors[j]
                              = last.report.details[1].errors[i]

====
